---- MODULE Spec2Model ----
(***************************************************************************)
(* Model of Challange_1a/simple_pdf_extractor.py: the outline extractor    *)
(* (MultilingualPDFHeadingExtractor) and the batch driver                  *)
(* (run_multilingual_extraction).                                          *)
(*                                                                         *)
(* Texts are TLA+ strings; the character at position i of s is             *)
(* SubSeq(s, i, i).  Sizes are in tenths of a point (round(size, 1)),      *)
(* raw sizes in hundredths.  Coordinates are integers.                     *)
(*                                                                         *)
(* Code points outside ASCII are written with ASCII stand-ins that occur   *)
(* nowhere else in the model:                                              *)
(*   NBSP U+00A0, LSQUO U+2018, RSQUO U+2019, LDQUO U+201C, RDQUO U+201D,  *)
(*   ENDASH U+2013, EMDASH U+2014, HELLIP U+2026.                          *)
(***************************************************************************)
EXTENDS Integers, Sequences, FiniteSets, TLC

NBSP == "_"
LSQUO == "{"
RSQUO == "}"
LDQUO == "<"
RDQUO == ">"
ENDASH == "^"
EMDASH == "="
HELLIP == "~"

(***************************************************************************)
(* Characters and strings                                                  *)
(***************************************************************************)
UPPER == "ABCDEFGHIJKLMNOPQRSTUVWXYZ"
LOWER == "abcdefghijklmnopqrstuvwxyz"
DIGITS == "0123456789"

Chars(s) == {SubSeq(s, i, i) : i \in 1..Len(s)}
At(s, i) == SubSeq(s, i, i)

UpperSet == Chars(UPPER)
LowerSet == Chars(LOWER)
DigitSet == Chars(DIGITS)
SpaceSet == {" ", "\t", "\n", NBSP}

\* str.lower() on one character
LowerChar(c) ==
    IF c \in UpperSet
    THEN At(LOWER, CHOOSE i \in 1..26 : At(UPPER, i) = c)
    ELSE c

RECURSIVE ToLower(_)
ToLower(s) ==
    IF s = "" THEN ""
    ELSE LowerChar(At(s, 1)) \o ToLower(SubSeq(s, 2, Len(s)))

\* str.strip(), str.rstrip(), str.lstrip() with no argument
RECURSIVE LStrip(_)
LStrip(s) ==
    IF s # "" /\ At(s, 1) \in SpaceSet THEN LStrip(SubSeq(s, 2, Len(s))) ELSE s

RECURSIVE RStrip(_)
RStrip(s) ==
    IF s # "" /\ At(s, Len(s)) \in SpaceSet
    THEN RStrip(SubSeq(s, 1, Len(s) - 1)) ELSE s

Strip(s) == LStrip(RStrip(s))

\* text.rstrip(':')
RECURSIVE RStripColon(_)
RStripColon(s) ==
    IF s # "" /\ At(s, Len(s)) = ":"
    THEN RStripColon(SubSeq(s, 1, Len(s) - 1)) ELSE s

\* sub in s
Contains(s, sub) ==
    \E i \in 1..(Len(s) - Len(sub) + 1) : SubSeq(s, i, i + Len(sub) - 1) = sub

StartsWith(s, p) == Len(s) >= Len(p) /\ SubSeq(s, 1, Len(p)) = p
EndsWith(s, p) == Len(s) >= Len(p) /\ SubSeq(s, Len(s) - Len(p) + 1, Len(s)) = p

\* str.isupper(): at least one cased character and no lowercase one
IsUpper(s) == (Chars(s) \cap UpperSet # {}) /\ (Chars(s) \cap LowerSet = {})

\* " ".join(texts)
RECURSIVE JoinSpace(_)
JoinSpace(texts) ==
    IF texts = <<>> THEN ""
    ELSE IF Len(texts) = 1 THEN texts[1]
    ELSE texts[1] \o " " \o JoinSpace(Tail(texts))

\* str.replace(old, new), old a single character
RECURSIVE ReplaceChar(_, _, _)
ReplaceChar(s, old, new) ==
    IF s = "" THEN ""
    ELSE (IF At(s, 1) = old THEN new ELSE At(s, 1))
         \o ReplaceChar(SubSeq(s, 2, Len(s)), old, new)

(***************************************************************************)
(* Regular expressions (module re).  A pattern is a sequence of items      *)
(* [neg, set, min, max, greedy]: a character class (the characters in set, *)
(* or those not in set when neg) repeated min..max times, greedily or      *)
(* lazily; max = -1 stands for "no upper limit".                           *)
(***************************************************************************)
Cls(set, min, max) == [neg |-> FALSE, set |-> set, min |-> min, max |-> max, greedy |-> TRUE]
One(set) == Cls(set, 1, 1)
Plus(set) == Cls(set, 1, -1)
Star(set) == Cls(set, 0, -1)
\* . (no DOTALL): anything but a newline
DotStar == [neg |-> TRUE, set |-> {"\n"}, min |-> 0, max |-> -1, greedy |-> TRUE]
DotStarLazy == [neg |-> TRUE, set |-> {"\n"}, min |-> 0, max |-> -1, greedy |-> FALSE]
\* a literal string; LitI is the literal under re.IGNORECASE
Lit(s) == [i \in 1..Len(s) |-> One({At(s, i)})]
LitI(s) == [i \in 1..Len(s) |->
              One({c \in UpperSet \cup LowerSet \cup {At(s, i)} :
                     LowerChar(c) = LowerChar(At(s, i))})]

InCls(it, c) == IF it.neg THEN c \notin it.set ELSE c \in it.set

\* $ without MULTILINE: at the end, or just before a final newline
AtEnd(s, i) == i = Len(s) + 1 \/ (i = Len(s) /\ At(s, i) = "\n")

\* The backtracking matcher: items k.. of re against s from position i,
\* item k already repeated n times.  The result is the position after the
\* match the engine finds first, or 0 when there is none.
RECURSIVE MatchFrom(_, _, _, _, _, _)
MatchFrom(re, dollar, s, k, i, n) ==
    IF k > Len(re)
    THEN (IF dollar /\ ~AtEnd(s, i) THEN 0 ELSE i)
    ELSE LET it == re[k]
             more == IF (it.max < 0 \/ n < it.max) /\ i <= Len(s) /\ InCls(it, At(s, i))
                     THEN MatchFrom(re, dollar, s, k, i + 1, n + 1) ELSE 0
             rest == IF n >= it.min
                     THEN MatchFrom(re, dollar, s, k + 1, i, 0) ELSE 0
         IN  IF it.greedy
             THEN (IF more # 0 THEN more ELSE rest)
             ELSE (IF rest # 0 THEN rest ELSE more)

\* re.match(pattern, s): a match at the start of s
ReMatch(re, dollar, s) == MatchFrom(re, dollar, s, 1, 1, 0) # 0

\* re.search(pattern, s): a match anywhere in s
ReSearch(re, dollar, s) ==
    \E i \in 1..(Len(s) + 1) : MatchFrom(re, dollar, s, 1, i, 0) # 0

\* re.sub(pattern, repl, s) for patterns that match no empty string:
\* leftmost non-overlapping matches, scanned from position i.
RECURSIVE ReSubFrom(_, _, _, _, _)
ReSubFrom(re, dollar, repl, s, i) ==
    IF i > Len(s) THEN ""
    ELSE LET e == MatchFrom(re, dollar, s, 1, i, 0)
         IN  IF e > i
             THEN repl \o ReSubFrom(re, dollar, repl, s, e)
             ELSE At(s, i) \o ReSubFrom(re, dollar, repl, s, i + 1)

ReSub(re, dollar, repl, s) == ReSubFrom(re, dollar, repl, s, 1)

(***************************************************************************)
(* Text Cleaner                                                            *)
(***************************************************************************)
\* r'\.{2,}.*$'
RE_LEADERS == <<Cls({"."}, 2, -1), DotStar>>
\* r'\s+\d+\s*$'
RE_TRAILING_NUMBER == <<Plus(SpaceSet), Plus(DigitSet), Star(SpaceSet)>>
\* r'\s+'
RE_SPACES == <<Plus(SpaceSet)>>

\* the unicode_fixes table, applied in order
unicode_fixes ==
    << <<RSQUO, "'">>, <<LSQUO, "'">>, <<LDQUO, "\"">>, <<RDQUO, "\"">>,
       <<ENDASH, ENDASH>>, <<EMDASH, EMDASH>>, <<HELLIP, "...">>, <<NBSP, " ">> >>

RECURSIVE ApplyFixes(_, _)
ApplyFixes(s, k) ==
    IF k > Len(unicode_fixes) THEN s
    ELSE ApplyFixes(ReplaceChar(s, unicode_fixes[k][1], unicode_fixes[k][2]), k + 1)

\* len(cleaned) <= len(original) * 0.4
TooShort_OrEqual(cleaned, original) == 5 * Len(cleaned) <= 2 * Len(original)

\* len(cleaned) < len(original) * 0.4
TooShort(cleaned, original) == 5 * Len(cleaned) < 2 * Len(original)

\* lines 750-776 with the unstripped text taken back at line 769
_clean_heading_text_RevertsToRaw(text) ==
    LET original == Strip(text)
        c1 == Strip(ReSub(RE_LEADERS, TRUE, "", text))
        c2 == Strip(ReSub(RE_TRAILING_NUMBER, TRUE, "", c1))
        c3 == Strip(ReSub(RE_SPACES, FALSE, " ", c2))
        c4 == ApplyFixes(c3, 1)
        c5 == IF TooShort(c4, original) THEN text ELSE c4
    IN  IF EndsWith(c5, " ") THEN c5 ELSE c5 \o " "

_clean_heading_text(text) ==
    LET original == Strip(text)
        c1 == Strip(ReSub(RE_LEADERS, TRUE, "", text))
        c2 == Strip(ReSub(RE_TRAILING_NUMBER, TRUE, "", c1))
        c3 == Strip(ReSub(RE_SPACES, FALSE, " ", c2))
        c4 == ApplyFixes(c3, 1)
        c5 == IF TooShort(c4, original) THEN original ELSE c4
    IN  IF EndsWith(c5, " ") THEN c5 ELSE c5 \o " "

(***************************************************************************)
(* Numbers.  A threshold or a relative position is a rational <<num, den>> *)
(* with den > 0; the float operations of the code are modelled exactly.    *)
(***************************************************************************)
Max(S) == CHOOSE m \in S : \A e \in S : e <= m
Min(S) == CHOOSE m \in S : \A e \in S : m <= e
Range(f) == {f[i] : i \in DOMAIN f}

RECURSIVE SumSeq(_)
SumSeq(q) == IF q = <<>> THEN 0 ELSE Head(q) + SumSeq(Tail(q))

\* a >= b and a < b for rationals
RatGE(a, b) == a[1] * b[2] >= b[1] * a[2]
RatLT(a, b) == a[1] * b[2] < b[1] * a[2]
Rat(n) == <<n, 1>>

\* round(span["size"], 1): raw size in hundredths to tenths
Round1(h) == (h + 5) \div 10

(***************************************************************************)
(* Span Normalizer and Line Merger: extract_text_with_metadata, lines      *)
(* 41-91, and _merge_line_spans.  A page of the text source is             *)
(* [fault, height, width, spans]; a raw span is [text, size, flags, bbox]  *)
(* with bbox = <<x0, y0, x1, y1>>.                                         *)
(***************************************************************************)
FlagBold == 16
FlagItalic == 2
HasFlag(flags, bit) == (flags \div bit) % 2 = 1

\* lines 46-47 with "if text:" alone
Usable_KeepsSingleChar(span) == Strip(span.text) # ""

\* lines 46-47: the spans that survive
Usable(span) == LET t == Strip(span.text) IN t # "" /\ Len(t) > 1

\* lines 49-69: the fragment record of one span
Fragment(span, page_no, page) ==
    [text |-> Strip(span.text),
     size |-> Round1(span.size),
     bold |-> HasFlag(span.flags, FlagBold),
     italic |-> HasFlag(span.flags, FlagItalic),
     page |-> page_no,
     x |-> span.bbox[1],
     y |-> span.bbox[2],
     bbox |-> span.bbox,
     page_height |-> page.height,
     page_width |-> page.width,
     relative_y |-> IF page.height > 0 THEN <<span.bbox[2], page.height>> ELSE Rat(0),
     relative_x |-> IF page.width > 0 THEN <<span.bbox[1], page.width>> ELSE Rat(0),
     char_count |-> Len(Strip(span.text))]

\* lines 41-69: page_spans of one page, in the order of the text source
RECURSIVE PageSpans(_, _, _)
PageSpans(spans, page_no, page) ==
    IF spans = <<>> THEN <<>>
    ELSE (IF Usable(Head(spans)) THEN <<Fragment(Head(spans), page_no, page)>> ELSE <<>>)
         \o PageSpans(Tail(spans), page_no, page)

\* the sort key (x, y)
KeyLE_XBeforeY(a, b) == a.x < b.x \/ (a.x = b.x /\ a.y <= b.y)

\* the sort key of line 71
KeyLE(a, b) == a.y < b.y \/ (a.y = b.y /\ a.x <= b.x)

\* list.sort(key = (y, x)): a stable sort
RECURSIVE InsertByKey(_, _)
InsertByKey(sorted, s) ==
    IF sorted = <<>> THEN <<s>>
    ELSE IF KeyLE(sorted[Len(sorted)], s) THEN Append(sorted, s)
    ELSE Append(InsertByKey(SubSeq(sorted, 1, Len(sorted) - 1), s), sorted[Len(sorted)])

RECURSIVE SortSpans(_)
SortSpans(spans) ==
    IF spans = <<>> THEN <<>>
    ELSE InsertByKey(SortSpans(SubSeq(spans, 1, Len(spans) - 1)), spans[Len(spans)])

Abs(n) == IF n < 0 THEN 0 - n ELSE n

y_threshold == 5

\* line 81 without the comparison of sizes
SameLine_AnySize(last, span) == Abs(span.y - last.y) <= 15

\* line 81 with y_diff of line 80: span joins the line that ends with last
SameLine(last, span) ==
    LET y_diff == Abs(span.y - last.y)
    IN  y_diff <= y_threshold \/ (y_diff <= 15 /\ span.size = last.size)

\* lines 76-89: the groups (current_line) of one page, in order
RECURSIVE GroupSpans(_, _, _)
GroupSpans(rest, current_line, groups) ==
    IF rest = <<>> THEN Append(groups, current_line)
    ELSE IF SameLine(current_line[Len(current_line)], Head(rest))
    THEN GroupSpans(Tail(rest), Append(current_line, Head(rest)), groups)
    ELSE GroupSpans(Tail(rest), <<Head(rest)>>, Append(groups, current_line))

\* lines 126-164 with a line bold when half of its spans are
_merge_line_spans_HalfIsBold(spans) ==
    LET merged_text == Strip(JoinSpace([i \in DOMAIN spans |-> spans[i].text]))
        sizes == [i \in DOMAIN spans |-> spans[i].size]
        bold_count == Cardinality({i \in DOMAIN spans : spans[i].bold})
        italic_count == Cardinality({i \in DOMAIN spans : spans[i].italic})
    IN  [text |-> merged_text,
         size |-> Max(Range(sizes)),
         sizes |-> sizes,
         bold |-> 2 * bold_count >= Len(spans),
         italic |-> 2 * italic_count > Len(spans),
         page |-> spans[1].page,
         y |-> spans[1].y,
         x |-> spans[1].x,
         bbox |-> << Min({spans[i].bbox[1] : i \in DOMAIN spans}),
                     Min({spans[i].bbox[2] : i \in DOMAIN spans}),
                     Max({spans[i].bbox[3] : i \in DOMAIN spans}),
                     Max({spans[i].bbox[4] : i \in DOMAIN spans}) >>,
         page_height |-> spans[1].page_height,
         page_width |-> spans[1].page_width,
         relative_y |-> spans[1].relative_y,
         relative_x |-> spans[1].relative_x,
         span_count |-> Len(spans),
         char_count |-> Len(merged_text)]

_merge_line_spans(spans) ==
    LET merged_text == Strip(JoinSpace([i \in DOMAIN spans |-> spans[i].text]))
        sizes == [i \in DOMAIN spans |-> spans[i].size]
        bold_count == Cardinality({i \in DOMAIN spans : spans[i].bold})
        italic_count == Cardinality({i \in DOMAIN spans : spans[i].italic})
    IN  [text |-> merged_text,
         size |-> Max(Range(sizes)),
         sizes |-> sizes,
         bold |-> 2 * bold_count > Len(spans),
         italic |-> 2 * italic_count > Len(spans),
         page |-> spans[1].page,
         y |-> spans[1].y,
         x |-> spans[1].x,
         bbox |-> << Min({spans[i].bbox[1] : i \in DOMAIN spans}),
                     Min({spans[i].bbox[2] : i \in DOMAIN spans}),
                     Max({spans[i].bbox[3] : i \in DOMAIN spans}),
                     Max({spans[i].bbox[4] : i \in DOMAIN spans}) >>,
         page_height |-> spans[1].page_height,
         page_width |-> spans[1].page_width,
         relative_y |-> spans[1].relative_y,
         relative_x |-> spans[1].relative_x,
         span_count |-> Len(spans),
         char_count |-> Len(merged_text)]

\* lines 71-89: the lines of one page
PageLines(page, page_no) ==
    LET page_spans == SortSpans(PageSpans(page.spans, page_no, page))
    IN  IF page_spans = <<>> THEN <<>>
        ELSE LET groups == GroupSpans(Tail(page_spans), <<Head(page_spans)>>, <<>>)
             IN  [k \in DOMAIN groups |-> _merge_line_spans(groups[k])]

(***************************************************************************)
(* Document Analyzer                                                       *)
(***************************************************************************)
Texts(lines) == [i \in DOMAIN lines |-> lines[i].text]
Sizes(lines) == [i \in DOMAIN lines |-> lines[i].size]

\* any(keyword in text for keyword in keywords)
AnyIn(keywords, t) == \E k \in keywords : Contains(t, k)

form_keywords == {"application form", "signature", "date of birth", "designation",
                  "name of the government"}
invitation_keywords == {"you're invited", "party", "hope to see you", "trampoline park"}
academic_keywords == {"foundation level", "syllabus", "qualifications", "learning objectives"}
rfp_keywords == {"business plan", "appendix"}
stem_keywords == {"pathway", "stem", "regular pathway", "distinction pathway"}
file3_keywords == {"request for proposal", "ontario digital library", "rfp:"}

\* lines 202-231 with the generic rfp test moved to the front
_detect_document_type_RfpFirst(lines) ==
    LET text_combined == JoinSpace([i \in DOMAIN lines |-> ToLower(lines[i].text)])
    IN  IF AnyIn(rfp_keywords, text_combined) THEN "rfp"
        ELSE IF AnyIn(file3_keywords, text_combined) THEN "rfp_file3"
        ELSE IF AnyIn(form_keywords, text_combined) THEN "form"
        ELSE IF AnyIn(invitation_keywords, text_combined) THEN "invitation"
        ELSE IF AnyIn(academic_keywords, text_combined) THEN "academic"
        ELSE IF AnyIn(stem_keywords, text_combined) THEN "pathway"
        ELSE "general"

_detect_document_type(lines) ==
    LET text_combined == JoinSpace([i \in DOMAIN lines |-> ToLower(lines[i].text)])
    IN  IF AnyIn(file3_keywords, text_combined) THEN "rfp_file3"
        ELSE IF AnyIn(form_keywords, text_combined) THEN "form"
        ELSE IF AnyIn(invitation_keywords, text_combined) THEN "invitation"
        ELSE IF AnyIn(academic_keywords, text_combined) THEN "academic"
        ELSE IF AnyIn(rfp_keywords, text_combined) THEN "rfp"
        ELSE IF AnyIn(stem_keywords, text_combined) THEN "pathway"
        ELSE "general"

\* Counter(values): value -> number of occurrences
Counter(q) == [v \in Range(q) |-> Cardinality({i \in DOMAIN q : q[i] = v})]

\* the entries of the analysis that the rest of the pipeline reads, and
\* the counts next to them; size_stats is present for every non-empty list
analyze_document_structure(lines) ==
    IF lines = <<>> THEN <<>>
    ELSE [total_lines |-> Len(lines),
          pages |-> Cardinality({lines[i].page : i \in DOMAIN lines}),
          sizes |-> Counter(Sizes(lines)),
          bold_lines |-> Cardinality({i \in DOMAIN lines : lines[i].bold}),
          document_type |-> _detect_document_type(lines),
          size_stats |-> TRUE]

\* doc_analysis.get("document_type", "general")
DocType(analysis) ==
    IF "document_type" \in DOMAIN analysis THEN analysis.document_type ELSE "general"

(***************************************************************************)
(* Font Threshold Calculator                                               *)
(***************************************************************************)
FirstIndex(q, v) == Min({i \in DOMAIN q : q[i] = v})

\* Counter(q).most_common(): by count descending, equal counts in the order
\* of first occurrence
RECURSIVE MostCommonOf(_, _)
MostCommonOf(q, todo) ==
    IF todo = {} THEN <<>>
    ELSE LET cnt == Counter(q)
             best == CHOOSE v \in todo :
                        \A w \in todo :
                            \/ cnt[v] > cnt[w]
                            \/ (cnt[v] = cnt[w] /\ FirstIndex(q, v) <= FirstIndex(q, w))
         IN  <<best>> \o MostCommonOf(q, todo \ {best})

MostCommon(q) == MostCommonOf(q, Range(q))

\* the rule of line 624 for a significant size
significant_count == 3

\* lines 634-640 with the ratios of H1 and H2 exchanged
MeanRatioThresholds_Exchanged(total, n) ==
    [H1 |-> <<total * 115, n * 100>>,
     H2 |-> <<total * 130, n * 100>>,
     H3 |-> <<total * 105, n * 100>>,
     H4 |-> <<total, n>>]

\* lines 634-640: avg_size = total / n times 1.3, 1.15, 1.05 and 1
MeanRatioThresholds(total, n) ==
    [H1 |-> <<total * 130, n * 100>>,
     H2 |-> <<total * 115, n * 100>>,
     H3 |-> <<total * 105, n * 100>>,
     H4 |-> <<total, n>>]

\* lines 618-640 without the test size > 0 of line 619
_calculate_font_thresholds_AllSizes(lines) ==
    LET font_sizes == Sizes(lines)
    IN  IF font_sizes = <<>> THEN <<>>
        ELSE LET font_freq == Counter(font_sizes)
                 significant_fonts ==
                     SelectSeq(MostCommon(font_sizes),
                               LAMBDA z : font_freq[z] >= significant_count)
                 total == SumSeq(font_sizes)
                 n == Len(font_sizes)
             IN  IF Len(significant_fonts) >= 3
                 THEN [H1 |-> Rat(significant_fonts[1]),
                       H2 |-> Rat(significant_fonts[2]),
                       H3 |-> Rat(significant_fonts[3]),
                       H4 |-> IF Len(significant_fonts) > 3
                              THEN Rat(significant_fonts[4])
                              ELSE Rat(significant_fonts[3])]
                 ELSE MeanRatioThresholds(total, n)

_calculate_font_thresholds(lines) ==
    LET font_sizes == SelectSeq(Sizes(lines), LAMBDA z : z > 0)
    IN  IF font_sizes = <<>> THEN <<>>
        ELSE LET font_freq == Counter(font_sizes)
                 significant_fonts ==
                     SelectSeq(MostCommon(font_sizes),
                               LAMBDA z : font_freq[z] >= significant_count)
                 total == SumSeq(font_sizes)
                 n == Len(font_sizes)
             IN  IF Len(significant_fonts) >= 3
                 THEN [H1 |-> Rat(significant_fonts[1]),
                       H2 |-> Rat(significant_fonts[2]),
                       H3 |-> Rat(significant_fonts[3]),
                       H4 |-> IF Len(significant_fonts) > 3
                              THEN Rat(significant_fonts[4])
                              ELSE Rat(significant_fonts[3])]
                 ELSE MeanRatioThresholds(total, n)

\* font_analysis.get(level, default)
Threshold(font_analysis, level, default) ==
    IF level \in DOMAIN font_analysis THEN font_analysis[level] ELSE Rat(default)

(***************************************************************************)
(* Heading Classifier.  A heading is [level, text, page, line]: level,     *)
(* cleaned text and zero-based page as in the code, and line, the index of *)
(* the line the heading was made from (dropped from the result).            *)
(***************************************************************************)
None == "None"

\* r'^\d+\.\s+[A-Z]'
RE_NUMBERED_H1 == <<Plus(DigitSet), One({"."}), Plus(SpaceSet), One(UpperSet)>>
\* r'^\d+\.\d+\s+[A-Z]'
RE_NUMBERED_H2 == <<Plus(DigitSet), One({"."}), Plus(DigitSet), Plus(SpaceSet), One(UpperSet)>>
\* r'^(revision\s+history|table\s+of\s+contents|acknowledgements)$'
RE_ACADEMIC_FIXED ==
    { Lit("revision") \o <<Plus(SpaceSet)>> \o Lit("history"),
      Lit("table") \o <<Plus(SpaceSet)>> \o Lit("of") \o <<Plus(SpaceSet)>> \o Lit("contents"),
      Lit("acknowledgements") }
\* r'^(summary|background|timeline|milestones)$'
RE_RFP_FIXED == {Lit("summary"), Lit("background"), Lit("timeline"), Lit("milestones")}
\* r'^appendix\s+[a-z]'
RE_APPENDIX == Lit("appendix") \o <<Plus(SpaceSet), One(LowerSet)>>

_classify_academic_main_heading(text, line, font_analysis) ==
    IF \E re \in RE_ACADEMIC_FIXED : ReMatch(re, TRUE, ToLower(text)) THEN "H1"
    ELSE IF ReMatch(RE_NUMBERED_H1, FALSE, text) THEN "H1"
    ELSE IF ReMatch(RE_NUMBERED_H2, FALSE, text) THEN "H2"
    ELSE IF RatGE(Rat(line.size), Threshold(font_analysis, "H1", 0)) /\ line.bold /\ Len(text) <= 80
    THEN "H1"
    ELSE IF RatGE(Rat(line.size), Threshold(font_analysis, "H2", 0)) /\ line.bold /\ Len(text) <= 60
    THEN "H2"
    ELSE None

_classify_rfp_main_heading(text, line, font_analysis) ==
    IF \E re \in RE_RFP_FIXED : ReMatch(re, TRUE, RStripColon(ToLower(text))) THEN "H2"
    ELSE IF ReMatch(RE_APPENDIX, FALSE, ToLower(text)) THEN "H2"
    ELSE IF ReMatch(RE_NUMBERED_H1, FALSE, text) THEN "H3"
    ELSE IF EndsWith(text, ":") /\ 8 <= Len(text) /\ Len(text) <= 50 /\ line.bold THEN "H3"
    ELSE IF RatGE(Rat(line.size), Threshold(font_analysis, "H1", 0)) /\ Len(text) <= 100 THEN "H1"
    ELSE IF RatGE(Rat(line.size), Threshold(font_analysis, "H2", 0)) /\ line.bold THEN "H2"
    ELSE None

\* lines 672-680 without the rule of lines 675-676
_classify_general_main_heading_NoSubsection(text, line, font_analysis) ==
    IF ReMatch(RE_NUMBERED_H1, FALSE, text) THEN "H1"
    ELSE IF line.bold /\ RatGE(Rat(line.size), Threshold(font_analysis, "H2", 0)) /\ Len(text) <= 80
    THEN "H2"
    ELSE None

_classify_general_main_heading(text, line, font_analysis) ==
    IF ReMatch(RE_NUMBERED_H1, FALSE, text) THEN "H1"
    ELSE IF ReMatch(RE_NUMBERED_H2, FALSE, text) THEN "H2"
    ELSE IF line.bold /\ RatGE(Rat(line.size), Threshold(font_analysis, "H2", 0)) /\ Len(text) <= 80
    THEN "H2"
    ELSE None

h1_patterns ==
    {"ontario's digital library",
     "ontario" \o RSQUO \o "s digital library",
     "a critical component for implementing ontario's road map to prosperity strategy",
     "a critical component for implementing ontario" \o RSQUO \o "s road map to prosperity strategy"}

h2_patterns ==
    {"summary", "background", "the business plan to be developed",
     "approach and specific proposal requirements",
     "evaluation and awarding of contract",
     "appendix a: odl envisioned phases & funding",
     "appendix a: odl envisioned phases &amp; funding",
     "appendix b: odl steering committee terms of reference",
     "appendix c: odl's envisioned electronic resources",
     "appendix c: odl" \o RSQUO \o "s envisioned electronic resources"}

h3_patterns ==
    {"timeline:", "equitable access for all ontarians:",
     "shared decision-making and accountability:", "shared governance structure:",
     "shared funding:", "local points of entry:", "access:", "guidance and advice:",
     "training:", "provincial purchasing & licensing:",
     "provincial purchasing &amp; licensing:", "technological support:",
     "what could the odl really mean?", "milestones",
     "phase i: business planning", "phase ii: implementing and transitioning",
     "phase iii: operating and growing the odl",
     "1. preamble", "2. terms of reference", "3. membership",
     "4. appointment criteria and process", "5. term", "6. chair", "7. meetings",
     "8. lines of accountability and communication",
     "9. financial and administrative policies"}

h4_patterns ==
    {"for each ontario citizen it could mean:",
     "for each ontario student it could mean:",
     "for each ontario library it could mean:",
     "for each ontario government it could mean:"}

_classify_file3_heading(text, line, font_analysis) ==
    LET text_lower == Strip(ToLower(text))
    IN  IF AnyIn(h1_patterns, text_lower) THEN "H1"
        ELSE IF AnyIn(h2_patterns, text_lower) THEN "H2"
        ELSE IF AnyIn(h3_patterns, text_lower) THEN "H3"
        ELSE IF AnyIn(h4_patterns, text_lower) THEN "H4"
        ELSE IF /\ EndsWith(text, ":") /\ 5 <= Len(text) /\ Len(text) <= 60
                /\ (line.bold \/ RatGE(Rat(line.size), Threshold(font_analysis, "H3", 120)))
        THEN "H3"
        ELSE IF ReMatch(RE_NUMBERED_H1, FALSE, text) /\ line.page >= 10 THEN "H3"
        ELSE None

\* lines 507-508 without the phrase list
_classify_invitation_UppercaseOnly(text) ==
    IF IsUpper(text) /\ 10 <= Len(text) /\ Len(text) <= 50 THEN "H1" ELSE None

\* the test of lines 507-508
_classify_invitation(text) ==
    IF \/ ToLower(text) \in {"pathway options", "hope to see you there"}
       \/ (IsUpper(text) /\ 10 <= Len(text) /\ Len(text) <= 50)
    THEN "H1" ELSE None

main_sections == {"pathway options", "regular pathway", "distinction pathway"}

\* the test of line 532
_classify_pathway(text) ==
    IF AnyIn(main_sections, ToLower(text)) THEN "H1" ELSE None

\* the classifier and the shortest text each extractor looks at
Classify(genre, text, line, font_analysis) ==
    CASE genre = "invitation" -> _classify_invitation(text)
      [] genre = "pathway" -> _classify_pathway(text)
      [] genre = "academic" -> _classify_academic_main_heading(text, line, font_analysis)
      [] genre = "rfp_file3" -> _classify_file3_heading(text, line, font_analysis)
      [] genre = "rfp" -> _classify_rfp_main_heading(text, line, font_analysis)
      [] OTHER -> _classify_general_main_heading(text, line, font_analysis)

MinLength(genre) ==
    CASE genre \in {"invitation", "pathway"} -> 0
      [] genre = "rfp_file3" -> 3
      [] OTHER -> 5

\* line 602 without the seen set
Skipped_NoSeen(genre, t, seen) == Len(t) < MinLength(genre)

\* line 602 (399, 510, 533, 552, 577): the lines an extractor passes over
Skipped(genre, t, seen) == t \in seen \/ Len(t) < MinLength(genre)

\* the loop shared by the six extractors: line i onwards, with the headings
\* and the seen set built so far
RECURSIVE CollectHeadings(_, _, _, _, _, _)
CollectHeadings(genre, lines, font_analysis, i, headings, seen) ==
    IF i > Len(lines) THEN headings
    ELSE LET line == lines[i]
             t == Strip(line.text)
             level == Classify(genre, t, line, font_analysis)
         IN  IF Skipped(genre, t, seen) \/ level = None
             THEN CollectHeadings(genre, lines, font_analysis, i + 1, headings, seen)
             ELSE CollectHeadings(genre, lines, font_analysis, i + 1,
                     Append(headings, [level |-> level,
                                       text |-> _clean_heading_text(t),
                                       page |-> line.page - 1,
                                       line |-> i]),
                     seen \cup {t})

\* headings.sort(key = page): a stable sort
RECURSIVE InsertByPage(_, _)
InsertByPage(sorted, h) ==
    IF sorted = <<>> THEN <<h>>
    ELSE IF sorted[Len(sorted)].page <= h.page THEN Append(sorted, h)
    ELSE Append(InsertByPage(SubSeq(sorted, 1, Len(sorted) - 1), h), sorted[Len(sorted)])

RECURSIVE SortByPage(_)
SortByPage(hs) ==
    IF hs = <<>> THEN <<>>
    ELSE InsertByPage(SortByPage(SubSeq(hs, 1, Len(hs) - 1)), hs[Len(hs)])

\* headings[:n]
\* the list without a cap
FirstN_All(hs, n) == hs

FirstN(hs, n) == SubSeq(hs, 1, IF Len(hs) < n THEN Len(hs) ELSE n)

invitation_cap == 2
academic_cap == 18
rfp_cap == 35
general_cap == 25

_extract_invitation_headings(lines) ==
    FirstN(CollectHeadings("invitation", lines, <<>>, 1, <<>>, {}), invitation_cap)

_extract_pathway_headings(lines) ==
    CollectHeadings("pathway", lines, <<>>, 1, <<>>, {})

_extract_academic_main_headings(lines) ==
    FirstN(SortByPage(CollectHeadings("academic", lines,
                _calculate_font_thresholds(lines), 1, <<>>, {})), academic_cap)

_extract_file3_specific_headings(lines) ==
    SortByPage(CollectHeadings("rfp_file3", lines,
                _calculate_font_thresholds(lines), 1, <<>>, {}))

_extract_rfp_main_headings(lines) ==
    FirstN(SortByPage(CollectHeadings("rfp", lines,
                _calculate_font_thresholds(lines), 1, <<>>, {})), rfp_cap)

_extract_general_main_headings(lines) ==
    FirstN(SortByPage(CollectHeadings("general", lines,
                _calculate_font_thresholds(lines), 1, <<>>, {})), general_cap)

\* the dispatch of extract_main_headings_only, lines 239-252
HeadingsFor(doc_type, lines) ==
    CASE doc_type = "form" -> <<>>
      [] doc_type = "invitation" -> _extract_invitation_headings(lines)
      [] doc_type = "academic" -> _extract_academic_main_headings(lines)
      [] doc_type = "rfp_file3" -> _extract_file3_specific_headings(lines)
      [] doc_type = "rfp" -> _extract_rfp_main_headings(lines)
      [] doc_type = "pathway" -> _extract_pathway_headings(lines)
      [] OTHER -> _extract_general_main_headings(lines)

(***************************************************************************)
(* Title Extractor.  The *Trace operators return [title, source]: the      *)
(* title of the code and the indices of the lines whose text it was made   *)
(* from.                                                                   *)
(***************************************************************************)
\* r'^\d+[\.\)\:]'
RE_NUMBERED == <<Plus(DigitSet), One({".", ")", ":"})>>

_is_numbered_pattern(text) == ReMatch(RE_NUMBERED, FALSE, text)

\* r'version\s*[\d\.]+', r'draft', r'confidential', r'copyright', the
\* copyright sign, r'\d{4}', r'page\s+\d+', r'date\s*:', r'author\s*:'
COPYRIGHT_SIGN == "@"
metadata_patterns ==
    { Lit("version") \o <<Star(SpaceSet), Plus(DigitSet \cup {"."})>>,
      Lit("draft"), Lit("confidential"), Lit("copyright"), Lit(COPYRIGHT_SIGN),
      <<Cls(DigitSet, 4, 4)>>,
      Lit("page") \o <<Plus(SpaceSet), Plus(DigitSet)>>,
      Lit("date") \o <<Star(SpaceSet), One({":"})>>,
      Lit("author") \o <<Star(SpaceSet), One({":"})>> }

\* lines 718-724 matching the text as it is, not lowercased
_is_universal_metadata_CaseSensitive(text) ==
    \E re \in metadata_patterns : ReSearch(re, FALSE, Strip(text))

_is_universal_metadata(text) ==
    LET text_lower == Strip(ToLower(text))
    IN  \E re \in metadata_patterns : ReSearch(re, FALSE, text_lower)

_is_all_uppercase(text) ==
    /\ Chars(text) \cap (UpperSet \cup LowerSet) # {}
    /\ Chars(text) \cap LowerSet = {}

\* the number of observations in a Counter among the values in S
RECURSIVE CountIn(_, _)
CountIn(cnt, S) ==
    IF S = {} THEN 0
    ELSE LET v == CHOOSE v \in S : TRUE IN cnt[v] + CountIn(cnt, S \ {v})

\* _get_size_percentile(size, analysis) >= pct
PercentileGE(size, analysis, pct) ==
    IF "sizes" \notin DOMAIN analysis THEN 0 >= pct
    ELSE LET cnt == analysis.sizes
             n == CountIn(cnt, DOMAIN cnt)
             position == CountIn(cnt, {v \in DOMAIN cnt : v < size})
         IN  IF n = 0 THEN 0 >= pct ELSE position * 100 >= pct * n

HasSizeStats(analysis) == "size_stats" \in DOMAIN analysis /\ analysis.size_stats

\* the indices of [line for line in lines[:limit] if line["page"] == 1]
FirstPageLines(lines, limit) ==
    SelectSeq([k \in 1..(IF Len(lines) < limit THEN Len(lines) ELSE limit) |-> k],
              LAMBDA k : lines[k].page = 1)

\* lines 276-278 and 322-324: the candidate filter
IsCandidate(line) ==
    LET t == Strip(line.text)
    IN  /\ line.char_count >= 5 /\ line.char_count <= 200
        /\ ~_is_numbered_pattern(t)
        /\ ~_is_universal_metadata(t)

\* lines 280-298: the score of a candidate of the generic path
GenericScore(line, analysis) ==
    LET t == Strip(line.text)
    IN    (IF HasSizeStats(analysis)
           THEN (IF PercentileGE(line.size, analysis, 95) THEN 5
                 ELSE IF PercentileGE(line.size, analysis, 85) THEN 3 ELSE 0)
           ELSE 0)
        + (IF line.bold THEN 3 ELSE 0)
        + (IF RatLT(line.relative_y, <<15, 100>>) THEN 4
           ELSE IF RatLT(line.relative_y, <<3, 10>>) THEN 2 ELSE 0)
        + (IF _is_all_uppercase(t) /\ line.char_count <= 150 THEN 3 ELSE 0)

academic_title_keywords ==
    {"overview", "foundation", "level", "extensions", "syllabus",
     "qualifications", "examination", "training", "course"}

\* lines 327-365: the score of a candidate of the academic path
AcademicScore(line, analysis) ==
    LET text_lower == ToLower(Strip(line.text))
        keyword_matches == Cardinality({k \in academic_title_keywords : Contains(text_lower, k)})
    IN    (IF keyword_matches >= 2 THEN 10 ELSE IF keyword_matches >= 1 THEN 5 ELSE 0)
        + (IF HasSizeStats(analysis)
           THEN (IF PercentileGE(line.size, analysis, 90) THEN 8
                 ELSE IF PercentileGE(line.size, analysis, 75) THEN 5 ELSE 0)
           ELSE 0)
        + (IF line.bold THEN 4 ELSE 0)
        + (IF RatLT(line.relative_y, <<2, 10>>) THEN 6
           ELSE IF RatLT(line.relative_y, <<4, 10>>) THEN 3 ELSE 0)
        + (IF 15 <= line.char_count /\ line.char_count <= 100 THEN 3 ELSE 0)
        + (IF AnyIn({"overview", "foundation level", "syllabus"}, text_lower) THEN 5 ELSE 0)

\* candidates.sort(key = (-score, i)); candidates[0]: position in cands of
\* the first candidate with the highest score
\* the last of the candidates with the highest score
BestCandidate_LastOfEqual(cands, score) ==
    CHOOSE k \in DOMAIN cands :
        /\ \A j \in DOMAIN cands : score[cands[j]] <= score[cands[k]]
        /\ \A j \in (k + 1)..Len(cands) : score[cands[j]] < score[cands[k]]

BestCandidate(cands, score) ==
    CHOOSE k \in DOMAIN cands :
        /\ \A j \in DOMAIN cands : score[cands[j]] <= score[cands[k]]
        /\ \A j \in 1..(k - 1) : score[cands[j]] < score[cands[k]]

NoSource == {}

GenericTitleTrace(lines, analysis) ==
    LET first_page_lines == FirstPageLines(lines, 50)
        cands == SelectSeq(first_page_lines, LAMBDA k : IsCandidate(lines[k]))
        score == [k \in Range(cands) |-> GenericScore(lines[k], analysis)]
    IN  IF cands # <<>>
        THEN LET best == cands[BestCandidate(cands, score)]
             IN  [title |-> _clean_heading_text(Strip(lines[best].text)), source |-> {best}]
        ELSE [title |-> "Untitled Document", source |-> NoSource]

AcademicTitleTrace(lines, analysis) ==
    LET first_page_lines == FirstPageLines(lines, 30)
        cands == SelectSeq(first_page_lines, LAMBDA k : IsCandidate(lines[k]))
        score == [k \in Range(cands) |-> AcademicScore(lines[k], analysis)]
        fallback == SelectSeq(first_page_lines,
                       LAMBDA k : LET t == Strip(lines[k].text)
                                  IN  /\ \/ Contains(ToLower(t), "overview")
                                         \/ Contains(ToLower(t), "foundation")
                                      /\ Len(t) > 10)
    IN  IF cands # <<>>
        THEN LET best == cands[BestCandidate(cands, score)]
             IN  [title |-> _clean_heading_text(Strip(lines[best].text)), source |-> {best}]
        ELSE IF fallback # <<>>
        THEN [title |-> _clean_heading_text(Strip(lines[fallback[1]].text)),
              source |-> {fallback[1]}]
        ELSE [title |-> "Academic Document", source |-> NoSource]

_extract_academic_title(lines, analysis) == AcademicTitleTrace(lines, analysis).title

\* r'RFP:\s*R\s*RFP:\s*R.*?quest\s+f.*?r\s+Pr.*?oposal', re.IGNORECASE
RE_FILE3_CORRUPTION ==
    LitI("RFP:") \o <<Star(SpaceSet)>> \o LitI("R") \o <<Star(SpaceSet)>>
    \o LitI("RFP:") \o <<Star(SpaceSet)>> \o LitI("R") \o <<DotStarLazy>>
    \o LitI("quest") \o <<Plus(SpaceSet)>> \o LitI("f") \o <<DotStarLazy>>
    \o LitI("r") \o <<Plus(SpaceSet)>> \o LitI("Pr") \o <<DotStarLazy>> \o LitI("oposal")

_clean_title_file3(text) ==
    LET t1 == ReSub(RE_SPACES, FALSE, " ", Strip(text))
        t2 == ReSub(RE_FILE3_CORRUPTION, FALSE, "RFP:Request for Proposal", t1)
        t3 == IF StartsWith(t2, "RFP:") THEN t2 ELSE "RFP:Request for Proposal " \o t2
    IN  IF EndsWith(t3, "  ") THEN t3 ELSE RStrip(t3) \o "  "

file3_title_markers ==
    {"rfp:", "request for proposal", "to present a proposal",
     "developing the business plan", "ontario digital library"}

File3TitleTrace(lines) ==
    LET first == [k \in 1..(IF Len(lines) < 30 THEN Len(lines) ELSE 30) |-> k]
        parts == SelectSeq(first,
                     LAMBDA k : AnyIn(file3_title_markers, ToLower(Strip(lines[k].text))))
    IN  IF parts # <<>>
        THEN [title |-> _clean_title_file3(
                            JoinSpace([j \in DOMAIN parts |-> Strip(lines[parts[j]].text)])),
              source |-> Range(parts)]
        ELSE [title |-> "RFP:Request for Proposal To Present a Proposal for Developing the Business Plan for the Ontario Digital Library  ",
              source |-> NoSource]

_extract_file3_title(lines) == File3TitleTrace(lines).title

\* the dispatch of _extract_multilingual_title
TitleTrace(lines, analysis, doc_type) ==
    IF lines = <<>> THEN [title |-> "Untitled Document", source |-> NoSource]
    ELSE IF doc_type = "rfp_file3" THEN File3TitleTrace(lines)
    ELSE IF doc_type = "academic" THEN AcademicTitleTrace(lines, analysis)
    ELSE GenericTitleTrace(lines, analysis)

_extract_multilingual_title(lines, analysis, doc_type) ==
    TitleTrace(lines, analysis, doc_type).title

\* the outline with the 1-based page of the line
Outline_OneBasedPage(headings) ==
    [k \in DOMAIN headings |->
        [level |-> headings[k].level, text |-> headings[k].text,
         page |-> headings[k].page + 1]]

\* the outline as returned: level, text and page of each heading
Outline(headings) ==
    [k \in DOMAIN headings |->
        [level |-> headings[k].level, text |-> headings[k].text, page |-> headings[k].page]]

extract_main_headings_only(lines, doc_analysis) ==
    LET doc_type == DocType(doc_analysis)
    IN  [title |-> _extract_multilingual_title(lines, doc_analysis, doc_type),
         outline |-> Outline(HeadingsFor(doc_type, lines))]

(***************************************************************************)
(* State.  The text source of a document is [name, open_ok, pages]; a      *)
(* page is [fault, height, width, spans] with fault = "none" when the page *)
(* loads and its text is read.                                             *)
(***************************************************************************)
VARIABLES
    pdf_files,        \* run_multilingual_extraction: the documents found
    file_idx,         \* the position of the loop over pdf_files
    pc,               \* where the run is
    open_docs,        \* the documents whose source is open (fitz.open .. close)
    page_num,         \* extract_text_with_metadata: the page to read next
    all_content,      \* extract_text_with_metadata: the lines so far
    lines,            \* extract_outline_robust: the lines returned
    analysis,         \* extract_outline_robust: the analysis
    result,           \* extract_outline_robust: the value returned
    error,            \* the exception on its way to the handler
    output,           \* the result files written, in order
    results_summary,  \* run_multilingual_extraction: results_summary
    summary,          \* run_multilingual_extraction: the value returned
    text,             \* the argument of a cleaner call
    op,               \* the function applied to lines or text, "none" before
    out               \* what it returned

runVars == <<pdf_files, file_idx, pc, open_docs, page_num, all_content,
             analysis, result, error, output, results_summary, summary>>
callVars == <<text, op, out>>
vars == <<runVars, lines, callVars>>

Unset == "unset"

CurrentDoc == pdf_files[file_idx]

EmptyResult == [title |-> "Empty Document", outline |-> <<>>]

ErrorResult(e, path) ==
    [title |-> "Error Processing Document", outline |-> <<>>, error |-> e, file |-> path]

(***************************************************************************)
(* extract_text_with_metadata                                              *)
(***************************************************************************)
\* line 24 succeeds: the source is open, the page loop starts
OpenDocument ==
    /\ pc = "next_file" /\ file_idx <= Len(pdf_files)
    /\ CurrentDoc.open_ok
    /\ open_docs' = open_docs \cup {file_idx}
    /\ page_num' = 1
    /\ all_content' = <<>>
    /\ lines' = Unset /\ analysis' = Unset /\ result' = Unset
    /\ pc' = "pages"
    /\ UNCHANGED <<pdf_files, file_idx, error, output, results_summary, summary, callVars>>

\* line 24 raises: nothing was opened, lines 95-96 re-raise
OpenFails ==
    /\ pc = "next_file" /\ file_idx <= Len(pdf_files)
    /\ ~CurrentDoc.open_ok
    /\ error' = "cannot open"
    /\ lines' = Unset /\ analysis' = Unset /\ result' = Unset
    /\ pc' = "raised"
    /\ UNCHANGED <<pdf_files, file_idx, open_docs, page_num, all_content, output,
                   results_summary, summary, callVars>>

\* lines 33-91 for one page: its spans, sorted, grouped and merged
ReadPage ==
    /\ pc = "pages" /\ page_num <= Len(CurrentDoc.pages)
    /\ CurrentDoc.pages[page_num].fault = "none"
    /\ all_content' = all_content \o PageLines(CurrentDoc.pages[page_num], page_num)
    /\ page_num' = page_num + 1
    /\ UNCHANGED <<pdf_files, file_idx, pc, open_docs, lines, analysis, result, error,
                   output, results_summary, summary, callVars>>

\* load_page or get_text raises on this page: lines 95-96 re-raise, and
\* line 93 is not reached
PageFails ==
    /\ pc = "pages" /\ page_num <= Len(CurrentDoc.pages)
    /\ CurrentDoc.pages[page_num].fault # "none"
    /\ error' = CurrentDoc.pages[page_num].fault
    /\ pc' = "raised"
    /\ UNCHANGED <<pdf_files, file_idx, open_docs, page_num, all_content, lines, analysis,
                   result, output, results_summary, summary, callVars>>

\* lines 93-94: after the last page, close and return
CloseAndReturn ==
    /\ pc = "pages" /\ page_num > Len(CurrentDoc.pages)
    /\ open_docs' = open_docs \ {file_idx}
    /\ lines' = all_content
    /\ pc' = "extracted"
    /\ UNCHANGED <<pdf_files, file_idx, page_num, all_content, analysis, result, error,
                   output, results_summary, summary, callVars>>

(***************************************************************************)
(* extract_outline_robust                                                  *)
(***************************************************************************)
\* lines 782-786
ReturnEmpty ==
    /\ pc = "extracted" /\ lines = <<>>
    /\ result' = EmptyResult
    /\ pc' = "returned"
    /\ UNCHANGED <<pdf_files, file_idx, open_docs, page_num, all_content, lines, analysis,
                   error, output, results_summary, summary, callVars>>

\* line 788
Analyze ==
    /\ pc = "extracted" /\ lines # <<>>
    /\ analysis' = analyze_document_structure(lines)
    /\ pc' = "analyzed"
    /\ UNCHANGED <<pdf_files, file_idx, open_docs, page_num, all_content, lines, result,
                   error, output, results_summary, summary, callVars>>

\* lines 789-796
ExtractOutline ==
    /\ pc = "analyzed"
    /\ result' = extract_main_headings_only(lines, analysis)
    /\ pc' = "returned"
    /\ UNCHANGED <<pdf_files, file_idx, open_docs, page_num, all_content, lines, analysis,
                   error, output, results_summary, summary, callVars>>

\* lines 798-804 without the handler: the exception ends the run
HandleError_StopsRun ==
    /\ pc = "raised"
    /\ summary' = [error |-> error]
    /\ pc' = "finished"
    /\ UNCHANGED <<pdf_files, file_idx, open_docs, page_num, all_content, lines, analysis,
                   result, error, output, results_summary, callVars>>

\* lines 798-804
HandleError ==
    /\ pc = "raised"
    /\ result' = ErrorResult(error, CurrentDoc.name)
    /\ error' = Unset
    /\ pc' = "returned"
    /\ UNCHANGED <<pdf_files, file_idx, open_docs, page_num, all_content, lines, analysis,
                   output, results_summary, summary, callVars>>

(***************************************************************************)
(* run_multilingual_extraction                                             *)
(***************************************************************************)
OutputName(doc) == doc.name \o "_outline.json"

\* lines 887-888
NoFiles ==
    /\ pc = "next_file" /\ pdf_files = <<>>
    /\ summary' = [error |-> "No PDFs found in sample_dataset/pdfs/"]
    /\ pc' = "finished"
    /\ UNCHANGED <<pdf_files, file_idx, open_docs, page_num, all_content, lines, analysis,
                   result, error, output, results_summary, callVars>>

\* lines 894-905: the result file and the summary entry of one document
WriteResult ==
    /\ pc = "returned"
    /\ output' = Append(output, [name |-> OutputName(CurrentDoc), content |-> result])
    /\ results_summary' = Append(results_summary,
            [file |-> CurrentDoc.name,
             success |-> "error" \notin DOMAIN result,
             headings_count |-> Len(result.outline),
             title |-> result.title,
             output_file |-> OutputName(CurrentDoc)])
    /\ file_idx' = file_idx + 1
    /\ pc' = "next_file"
    /\ UNCHANGED <<pdf_files, open_docs, page_num, all_content, lines, analysis, result,
                   error, summary, callVars>>

\* lines 907-919
Finish ==
    /\ pc = "next_file" /\ pdf_files # <<>> /\ file_idx > Len(pdf_files)
    /\ summary' = [total_files |-> Len(pdf_files),
                   successful |-> Cardinality({k \in DOMAIN results_summary :
                                                  results_summary[k].success}),
                   total_headings |-> SumSeq([k \in DOMAIN results_summary |->
                                                  results_summary[k].headings_count]),
                   schema_generated |-> TRUE,
                   results |-> results_summary]
    /\ pc' = "finished"
    /\ UNCHANGED <<pdf_files, file_idx, open_docs, page_num, all_content, lines, analysis,
                   result, error, output, results_summary, callVars>>

(***************************************************************************)
(* Inputs                                                                  *)
(***************************************************************************)
\* a raw span of the text source
Span(t, size, flags, x, y) ==
    [text |-> t, size |-> size, flags |-> flags, bbox |-> <<x, y, x + 50, y + 10>>]

Page(spans) == [fault |-> "none", height |-> 800, width |-> 600, spans |-> spans]
BadPage(fault) == [fault |-> fault, height |-> 800, width |-> 600, spans |-> <<>>]

Doc(name, pages) == [name |-> name, open_ok |-> TRUE, pages |-> pages]

\* the documents of the batch model
DocNoPages == Doc("nopages", <<>>)
DocBlank ==
    Doc("blank", << Page(<<>>), Page(<<Span("  ", 1200, 0, 10, 20), Span(" x ", 1200, 0, 10, 40)>>) >>)
DocCannotOpen == [name |-> "broken", open_ok |-> FALSE, pages |-> <<>>]
DocBadPage ==
    Doc("badpage", << Page(<<Span("Annual Report", 2000, 16, 10, 20)>>), BadPage("load_page failed") >>)
DocBadText == Doc("badtext", << BadPage("get_text failed") >>)
DocGeneral ==
    Doc("general", << Page(<< Span("1. Introduction", 1800, 16, 10, 20),
                             Span("Some body text.", 1100, 0, 10, 60),
                             Span("1.1 Background", 1400, 0, 10, 100) >>) >>)
DocInvitation ==
    Doc("invitation", << Page(<< Span("YOU'RE INVITED", 2400, 16, 10, 20),
                                Span("Hope to see you there", 1400, 0, 10, 60),
                                Span("small print...", 800, 0, 10, 100) >>) >>)
DocForm ==
    Doc("form", << Page(<< Span("Application form for grant", 1400, 16, 10, 20),
                          Span("Signature", 1000, 0, 10, 60) >>) >>)

DocTwoPages ==
    Doc("twopages", << Page(<< Span("Some body text.", 1100, 0, 10, 20) >>),
                      Page(<< Span("1. Introduction", 1800, 16, 10, 20),
                              Span("2.1 Methods", 1400, 0, 10, 60) >>) >>)

SampleDocs == {DocNoPages, DocBlank, DocCannotOpen, DocBadPage, DocBadText,
               DocGeneral, DocInvitation, DocForm, DocTwoPages}

MaxFiles == 2

\* the sequences of at most n distinct elements of S
RECURSIVE Arrangements(_, _)
Arrangements(S, n) ==
    IF n = 0 THEN {<<>>}
    ELSE LET shorter == Arrangements(S, n - 1)
         IN  shorter \cup {Append(q, d) : q \in shorter, d \in S}

Distinct(q) == \A a, b \in DOMAIN q : a # b => q[a] # q[b]

Batches(S, n) == {q \in Arrangements(S, n) : Distinct(q)}

\* extract_text_with_metadata on a document that opens and reads: the
\* lines of pages p.. in page order
RECURSIVE LinesFrom(_, _)
LinesFrom(doc, p) ==
    IF p > Len(doc.pages) THEN <<>>
    ELSE PageLines(doc.pages[p], p) \o LinesFrom(doc, p + 1)

LinesOf(doc) == LinesFrom(doc, 1)

(***************************************************************************)
(* The batch run                                                           *)
(***************************************************************************)
NoCall == text = "" /\ op = "none" /\ out = Unset

InitRun(batches) ==
    /\ pdf_files \in batches
    /\ file_idx = 1
    /\ pc = "next_file"
    /\ open_docs = {}
    /\ page_num = 1
    /\ all_content = <<>>
    /\ lines = Unset /\ analysis = Unset /\ result = Unset /\ error = Unset
    /\ output = <<>> /\ results_summary = <<>> /\ summary = Unset
    /\ NoCall

Init == InitRun(Batches(SampleDocs, MaxFiles))

Next ==
    \/ OpenDocument \/ OpenFails \/ ReadPage \/ PageFails \/ CloseAndReturn
    \/ ReturnEmpty \/ Analyze \/ ExtractOutline \/ HandleError
    \/ NoFiles \/ WriteResult \/ Finish

Spec == Init /\ [][Next]_vars

(***************************************************************************)
(* C1.  A document whose extraction yields no line (it opens, every page   *)
(* reads, and no span has more than one character after stripping) gets    *)
(* exactly {title: "Empty Document", outline: []}: no error or file field, *)
(* and no analysis was run for it.                                         *)
(***************************************************************************)
ExtractsNoLine(doc) ==
    /\ doc.open_ok
    /\ \A p \in DOMAIN doc.pages :
          /\ doc.pages[p].fault = "none"
          /\ \A k \in DOMAIN doc.pages[p].spans :
                Len(Strip(doc.pages[p].spans[k].text)) <= 1

C1_EmptyDocument ==
    /\ (pc = "returned" /\ ExtractsNoLine(CurrentDoc)) =>
          /\ result = [title |-> "Empty Document", outline |-> <<>>]
          /\ analysis = Unset
    /\ \A k \in DOMAIN output :
          ExtractsNoLine(pdf_files[k]) =>
              output[k].content = [title |-> "Empty Document", outline |-> <<>>]

C1_Witness ==
    /\ pc = "returned" /\ ExtractsNoLine(CurrentDoc)
    /\ \E p \in DOMAIN CurrentDoc.pages : CurrentDoc.pages[p].spans # <<>>
    /\ result = EmptyResult

(***************************************************************************)
(* C10.  The text source of a document is closed on every exit from        *)
(* extract_text_with_metadata: outside the page loop no source is open,    *)
(* in particular none is open when the run moves to the next document.     *)
(***************************************************************************)
C10_ReleasedOnEveryExit == pc # "pages" => open_docs = {}

(***************************************************************************)
(* The Line Merger on one page: every page of at most MaxSpans spans       *)
(* drawn from MergeSpans, in any order of the text source.                 *)
(***************************************************************************)
MaxSpans == 3

MergeSpans ==
    { Span("ab", 1000, 0, 10, 0),   Span("cd", 1200, 16, 10, 0),
      Span("ef", 1000, 16, 70, 0),  Span("gh", 1000, 2, 10, 5),
      Span("ij", 1200, 18, 10, 5),  Span("kl", 1000, 0, 10, 10),
      Span("mn", 1200, 16, 10, 10), Span("op", 1000, 0, 10, 12),
      Span("qr", 1201, 0, 70, 12),  Span("st", 1000, 16, 10, 16),
      Span("uv", 1200, 0, 10, 16),  Span("wx", 1000, 0, 10, 40),
      Span(" y ", 1000, 0, 10, 20), Span(" ", 1200, 0, 10, 6) }

InitMerge ==
    InitRun({ <<Doc("page", <<Page(spans)>>)>> : spans \in Arrangements(MergeSpans, MaxSpans) })

NextMerge == OpenDocument \/ ReadPage \/ CloseAndReturn

SpecMerge == InitMerge /\ [][NextMerge]_vars

\* the fragments of page p of the current document in the order of line 71,
\* and the lines made from that page
SortedFragments(p) == SortSpans(PageSpans(CurrentDoc.pages[p].spans, p, CurrentDoc.pages[p]))
LinesOnPage(p) == SelectSeq(all_content, LAMBDA l : l.page = p)

\* the line (position in LinesOnPage) that holds the j-th sorted fragment,
\* by the span_count of the lines before it
LineHolding(pl, j) ==
    CHOOSE k \in DOMAIN pl :
        LET before == SumSeq([m \in 1..(k - 1) |-> pl[m].span_count])
        IN  before < j /\ j <= before + pl[k].span_count

PagesRead == 1..(page_num - 1)

InSameLine(p, i, j) == LineHolding(LinesOnPage(p), i) = LineHolding(LinesOnPage(p), j)

MergeRule(p, i, j) ==
    LET f == SortedFragments(p)
        dy == Abs(f[i].y - f[j].y)
    IN  /\ dy <= 5 => InSameLine(p, i, j)
        /\ (dy > 5 /\ dy <= 15) => (InSameLine(p, i, j) <=> f[i].size = f[j].size)
        /\ dy > 15 => ~InSameLine(p, i, j)

(***************************************************************************)
(* C2 as stated: for ANY two fragments of a page, |dy| <= 5 puts them in   *)
(* the same line, |dy| in (5, 15] puts them in the same line exactly when  *)
(* their sizes are equal, |dy| > 15 never does.                            *)
(***************************************************************************)
C2_AnyTwoFragments ==
    pc \in {"pages", "extracted"} =>
        \A p \in PagesRead :
            \A i, j \in DOMAIN SortedFragments(p) : i < j => MergeRule(p, i, j)

(***************************************************************************)
(* C2 amended: any two fragments of a page with |dy| <= 5 are in the same  *)
(* line; two fragments that are neighbours in the (y, x) order are in the  *)
(* same line exactly when |dy| <= 5, or |dy| <= 15 and their sizes are     *)
(* equal.                                                                  *)
(***************************************************************************)
C2_NeighbourFragments ==
    pc \in {"pages", "extracted"} =>
        \A p \in PagesRead :
            LET f == SortedFragments(p)
            IN  /\ \A i, j \in DOMAIN f :
                      (i < j /\ Abs(f[i].y - f[j].y) <= 5) => InSameLine(p, i, j)
                /\ \A i \in DOMAIN f : i + 1 \in DOMAIN f => MergeRule(p, i, i + 1)

\* a page was read where two neighbours 6..15 apart with equal sizes share a
\* line and two neighbours 6..15 apart with different sizes do not
C2_Witness ==
    /\ pc = "extracted" /\ 1 \in PagesRead
    /\ LET f == SortedFragments(1)
       IN  /\ Len(f) = 3
           /\ Abs(f[1].y - f[2].y) > 5 /\ Abs(f[1].y - f[2].y) <= 15
           /\ f[1].size = f[2].size /\ InSameLine(1, 1, 2)
           /\ Abs(f[2].y - f[3].y) > 5 /\ Abs(f[2].y - f[3].y) <= 15
           /\ f[2].size # f[3].size /\ ~InSameLine(1, 2, 3)

(***************************************************************************)
(* Calls of one function on the lines of a document                        *)
(***************************************************************************)
InitCall(inputs) ==
    /\ pdf_files = <<>> /\ file_idx = 1 /\ pc = "call" /\ open_docs = {}
    /\ page_num = 1 /\ all_content = <<>>
    /\ analysis = Unset /\ result = Unset /\ error = Unset
    /\ output = <<>> /\ results_summary = <<>> /\ summary = Unset
    /\ lines \in inputs
    /\ NoCall

\* a one-column document: pages of [text, size, bold], 20 units apart
ColumnPage(height, rows) ==
    [fault |-> "none", height |-> height, width |-> 600,
     spans |-> [k \in DOMAIN rows |->
                  Span(rows[k].text, rows[k].size * 10,
                       IF rows[k].bold THEN FlagBold ELSE 0, 10, 20 * k)]]

ColumnDoc(height, pages) ==
    Doc("column", [p \in DOMAIN pages |-> ColumnPage(height, pages[p])])

Row(t, size, bold) == [text |-> t, size |-> size, bold |-> bold]

(***************************************************************************)
(* The Font Threshold Calculator on documents whose lines have the sizes   *)
(* 10, 12 and 14 in any order of first appearance, each 0..MaxCount times, *)
(* then 16 and 0 (a size that rounds to zero).                             *)
(***************************************************************************)
MaxCount == 4

Repeat(v, n) == [k \in 1..n |-> v]

SizeOrders ==
    { o \in {100, 120, 140} \X {100, 120, 140} \X {100, 120, 140} :
        o[1] # o[2] /\ o[1] # o[3] /\ o[2] # o[3] }

SizeLists ==
    { Repeat(o[1], ca) \o Repeat(o[2], cb) \o Repeat(o[3], cc) \o Repeat(160, cd) \o Repeat(0, cz) :
        o \in SizeOrders,
        ca \in 0..MaxCount, cb \in 0..MaxCount, cc \in 0..MaxCount,
        cd \in {0, 3}, cz \in {0, 1} }

FontInputs ==
    { LinesOf(ColumnDoc(800, << [k \in DOMAIN q |-> Row("Body text", q[k], FALSE)] >>)) :
        q \in {z \in SizeLists : z # <<>>} }

CallThresholds ==
    /\ op = "none"
    /\ op' = "_calculate_font_thresholds"
    /\ out' = _calculate_font_thresholds(lines)
    /\ UNCHANGED <<runVars, lines, text>>

SpecFonts == InitCall(FontInputs) /\ [][CallThresholds]_vars

Occurrences(q, v) == Cardinality({k \in DOMAIN q : q[k] = v})
AllPositive(ls) == \A k \in DOMAIN ls : ls[k].size > 0

\* at least 3 distinct positive sizes occur 3 or more times each
FrequencyPath(ls) ==
    Cardinality({v \in Range(Sizes(ls)) : v > 0 /\ Occurrences(Sizes(ls), v) >= 3}) >= 3

Descending(th) == RatGE(th.H1, th.H2) /\ RatGE(th.H2, th.H3) /\ RatGE(th.H3, th.H4)

(***************************************************************************)
(* C3 as stated: for a non-empty list of lines with positive sizes the     *)
(* thresholds satisfy H1 >= H2 >= H3 >= H4 on both paths.                  *)
(***************************************************************************)
C3_DescendingOnBothPaths ==
    (op = "_calculate_font_thresholds" /\ AllPositive(lines)) => Descending(out)

(***************************************************************************)
(* C3 amended: H1 >= H2 >= H3 >= H4 holds on the mean-ratio path; on the   *)
(* frequency path the thresholds are sizes of the document ordered by how  *)
(* often they occur, the H1 size at least as often as the H2 size and so   *)
(* on, whatever their magnitudes.                                          *)
(***************************************************************************)
C3_DescendingOnMeanRatioPath ==
    (op = "_calculate_font_thresholds" /\ AllPositive(lines)) =>
        IF FrequencyPath(lines)
        THEN /\ \A l \in {"H1", "H2", "H3", "H4"} : out[l][2] = 1
             /\ Occurrences(Sizes(lines), out.H1[1]) >= Occurrences(Sizes(lines), out.H2[1])
             /\ Occurrences(Sizes(lines), out.H2[1]) >= Occurrences(Sizes(lines), out.H3[1])
             /\ Occurrences(Sizes(lines), out.H3[1]) >= Occurrences(Sizes(lines), out.H4[1])
             /\ Occurrences(Sizes(lines), out.H4[1]) >= 3
        ELSE Descending(out)

\* the mean-ratio path was taken on lines of several sizes
C3_Witness ==
    /\ op = "_calculate_font_thresholds" /\ AllPositive(lines)
    /\ ~FrequencyPath(lines)
    /\ Cardinality(Range(Sizes(lines))) >= 3
    /\ Descending(out) /\ ~RatGE(out.H2, out.H1)

(***************************************************************************)
(* The heading extractors, each on every document of at most MaxLines      *)
(* lines drawn from HeadingRows (the last line on page 1 or alone on page  *)
(* 2), and on the documents of the two scenarios.                          *)
(***************************************************************************)
MaxLines == 3

HeadingRows ==
    { Row("1. Introduction", 180, TRUE),
      Row("Some body text.", 140, TRUE),
      Row("Some body text.", 110, FALSE),
      Row("PATHWAY OPTIONS", 160, TRUE),
      Row("Summary:", 140, TRUE),
      Row("Hope to see you there", 120, FALSE),
      Row("Revision history", 120, FALSE) }

\* sequences of 1..n elements of S
Tuples(S, n) == Arrangements(S, n) \ {<<>>}

HeadingDocs ==
    { ColumnDoc(800, <<rows>>) : rows \in Tuples(HeadingRows, MaxLines) }
    \cup
    { ColumnDoc(800, <<SubSeq(rows, 1, Len(rows) - 1), <<rows[Len(rows)]>> >>) :
        rows \in Tuples(HeadingRows, MaxLines) }

GeneralScenario ==
    { ColumnDoc(800, << << Row("1. Introduction", 180, TRUE),
                           Row("Some body text.", 110, FALSE),
                           Row("1.1 Background", 140, b) >> >>) : b \in BOOLEAN }

InvitationScenario ==
    { ColumnDoc(800, << << Row("YOU'RE INVITED", 240, b),
                           Row("Hope to see you there", 140, FALSE),
                           Row("small print...", 80, c) >> >>) : b \in BOOLEAN, c \in BOOLEAN }

HeadingInputs == { LinesOf(d) : d \in HeadingDocs \cup GeneralScenario \cup InvitationScenario }

Genres == {"invitation", "pathway", "academic", "rfp_file3", "rfp", "general"}

\* one of _extract_invitation_headings .. _extract_general_main_headings
CallHeadings(genre) ==
    /\ op = "none"
    /\ op' = genre
    /\ out' = HeadingsFor(genre, lines)
    /\ UNCHANGED <<runVars, lines, text>>

NextHeadings == \E genre \in Genres : CallHeadings(genre)

SpecHeadings == InitCall(HeadingInputs) /\ [][NextHeadings]_vars

\* the text the seen set holds for the line a heading was made from
PreCleanText(h) == Strip(lines[h.line].text)

\* the extractor of the genre would make a heading of line k on its own
Accepted(genre, k) ==
    /\ Len(Strip(lines[k].text)) >= MinLength(genre)
    /\ Classify(genre, Strip(lines[k].text), lines[k], _calculate_font_thresholds(lines)) # None

(***************************************************************************)
(* C4.  For each of the six heading extractors the list returned is in     *)
(* ascending page order, headings of one page in line order; no two        *)
(* headings come from lines with the same stripped text; and of the lines  *)
(* with one text that the extractor accepts, the first is the one kept.    *)
(***************************************************************************)
C4_SortedAndDeduplicated ==
    op \in Genres =>
        /\ \A i \in DOMAIN out : out[i].page = lines[out[i].line].page - 1
        /\ \A i, j \in DOMAIN out :
              i < j => \/ out[i].page < out[j].page
                       \/ (out[i].page = out[j].page /\ out[i].line < out[j].line)
        /\ \A i, j \in DOMAIN out : i # j => PreCleanText(out[i]) # PreCleanText(out[j])
        /\ \A i \in DOMAIN out :
              \A k \in 1..(out[i].line - 1) :
                  Strip(lines[k].text) = PreCleanText(out[i]) => ~Accepted(op, k)

\* two accepted lines with one text on different pages, one heading, and a
\* second heading from another line
C4_Witness ==
    /\ op = "rfp" /\ Len(lines) = 3 /\ Len(out) = 2
    /\ lines[1].text = lines[3].text /\ lines[1].page # lines[3].page
    /\ Accepted("rfp", 1) /\ Accepted("rfp", 3)
    /\ out[1].line = 1 /\ out[2].line = 2

IsGeneralScenario ==
    /\ Len(lines) = 3
    /\ Texts(lines) = <<"1. Introduction", "Some body text.", "1.1 Background">>
    /\ \A k \in 1..3 : lines[k].page = 1
    /\ Sizes(lines) = <<180, 110, 140>>
    /\ lines[1].bold /\ ~lines[2].bold

(***************************************************************************)
(* C7 as stated: on the one-page document "1. Introduction" (bold, 18),    *)
(* "Some body text." (11), "1.1 Background" (14) the general extractor     *)
(* returns [{H1, "1. Introduction", 0}, {H2, "1.1 Background", 0}].        *)
(***************************************************************************)
C7_GeneralScenario ==
    (op = "general" /\ IsGeneralScenario) =>
        Outline(out) = << [level |-> "H1", text |-> "1. Introduction", page |-> 0],
                          [level |-> "H2", text |-> "1.1 Background", page |-> 0] >>

(***************************************************************************)
(* C7 amended: on that document the general extractor returns two          *)
(* headings, H1 from "1. Introduction" and H2 from "1.1 Background", both  *)
(* on page 0, their texts ending with the space the Text Cleaner appends;  *)
(* the body line gives no heading.                                         *)
(***************************************************************************)
C7_GeneralScenarioCleaned ==
    (op = "general" /\ IsGeneralScenario) =>
        /\ Outline(out) = << [level |-> "H1", text |-> "1. Introduction ", page |-> 0],
                             [level |-> "H2", text |-> "1.1 Background ", page |-> 0] >>
        /\ out[1].line = 1 /\ out[2].line = 3

C7_Witness == op = "general" /\ IsGeneralScenario /\ Len(out) = 2 /\ ~lines[3].bold

IsInvitationScenario ==
    /\ Texts(lines) = <<"YOU'RE INVITED", "Hope to see you there", "small print...">>
    /\ \A k \in 1..3 : lines[k].page = 1

(***************************************************************************)
(* C8.  On the page-1 lines "YOU'RE INVITED", "Hope to see you there",     *)
(* "small print..." the invitation extractor returns exactly two headings, *)
(* both H1 and on page 0, from the first and the second line in that       *)
(* order; the third line gives none.                                       *)
(***************************************************************************)
C8_InvitationScenario ==
    (op = "invitation" /\ IsInvitationScenario) =>
        /\ Len(out) = 2
        /\ \A i \in 1..2 : out[i].level = "H1" /\ out[i].page = 0 /\ out[i].line = i
        /\ out[1].text = "YOU'RE INVITED " /\ out[2].text = "Hope to see you there "

C8_Witness == op = "invitation" /\ IsInvitationScenario /\ Len(out) = 2

(***************************************************************************)
(* The Text Cleaner on every string made of at most MaxTokens tokens, and  *)
(* on its own result.                                                      *)
(***************************************************************************)
MaxTokens == 4

CleanTokens == {"Intro", " ", " 3", " 12", "..", HELLIP, NBSP, "x"}

RECURSIVE Concat(_)
Concat(q) == IF q = <<>> THEN "" ELSE Head(q) \o Concat(Tail(q))

CleanInputs == { Concat(q) : q \in Arrangements(CleanTokens, MaxTokens) }

InitClean ==
    /\ pdf_files = <<>> /\ file_idx = 1 /\ pc = "call" /\ open_docs = {}
    /\ page_num = 1 /\ all_content = <<>>
    /\ analysis = Unset /\ result = Unset /\ error = Unset
    /\ output = <<>> /\ results_summary = <<>> /\ summary = Unset
    /\ lines = Unset
    /\ text \in CleanInputs /\ op = "none" /\ out = Unset

CallClean ==
    /\ op = "none"
    /\ op' = "_clean_heading_text"
    /\ out' = _clean_heading_text(text)
    /\ UNCHANGED <<runVars, lines, text>>

\* the cleaner on what it returned
CallCleanAgain ==
    /\ op = "_clean_heading_text"
    /\ op' = "_clean_heading_text again"
    /\ text' = out
    /\ out' = _clean_heading_text(out)
    /\ UNCHANGED <<runVars, lines>>

NextClean == CallClean \/ CallCleanAgain

SpecClean == InitClean /\ [][NextClean]_vars

(***************************************************************************)
(* C5.  The Text Cleaner is idempotent: cleaning what it returned gives    *)
(* the same string, trailing space included.                               *)
(***************************************************************************)
C5_Idempotent == op = "_clean_heading_text again" => out = text

(***************************************************************************)
(* The genre test on every document of at most MaxGenreLines lines drawn   *)
(* from GenreRows.                                                         *)
(***************************************************************************)
MaxGenreLines == 2

GenreRows ==
    { Row("RFP: Library plan", 140, TRUE),  Row("Request for", 140, FALSE),
      Row("Proposal Business Plan", 140, FALSE), Row("Application form", 120, FALSE),
      Row("Birthday party", 120, FALSE),    Row("Syllabus", 120, FALSE),
      Row("STEM Pathway", 120, FALSE),      Row("Appendix A", 120, FALSE),
      Row("Date of", 120, FALSE),           Row("Birth and name", 120, FALSE),
      Row("Some body text.", 110, FALSE) }

GenreInputs ==
    { LinesOf(ColumnDoc(800, <<rows>>)) : rows \in Tuples(GenreRows, MaxGenreLines) }

CallDetect ==
    /\ op = "none"
    /\ op' = "_detect_document_type"
    /\ out' = _detect_document_type(lines)
    /\ UNCHANGED <<runVars, lines, text>>

SpecGenre == InitCall(GenreInputs) /\ [][CallDetect]_vars

\* the genres in the order of the tests, with the markers of each
GenreOrder == <<"rfp_file3", "form", "invitation", "academic", "rfp", "pathway">>

Markers(genre) ==
    CASE genre = "rfp_file3" -> {"request for proposal", "ontario digital library", "rfp:"}
      [] genre = "form" -> {"application form", "signature", "date of birth", "designation",
                            "name of the government"}
      [] genre = "invitation" -> {"you're invited", "party", "hope to see you", "trampoline park"}
      [] genre = "academic" -> {"foundation level", "syllabus", "qualifications",
                                "learning objectives"}
      [] genre = "rfp" -> {"business plan", "appendix"}
      [] genre = "pathway" -> {"pathway", "stem", "regular pathway", "distinction pathway"}

LowerConcatenation == JoinSpace([k \in DOMAIN lines |-> ToLower(lines[k].text)])

Matches(genre) == \E mk \in Markers(genre) : Contains(LowerConcatenation, mk)

(***************************************************************************)
(* C6.  The genre is the first of rfp-variant-3, form, invitation,         *)
(* academic, generic rfp, pathway with a marker in the lowercase           *)
(* concatenation of the line texts, "general" when there is none; a text   *)
(* with an rfp-variant-3 marker and "business plan" is rfp-variant-3.      *)
(***************************************************************************)
C6_FirstMatchingGenre ==
    op = "_detect_document_type" =>
        /\ \/ /\ out = "general"
              /\ \A k \in DOMAIN GenreOrder : ~Matches(GenreOrder[k])
           \/ \E k \in DOMAIN GenreOrder :
                 /\ out = GenreOrder[k]
                 /\ Matches(GenreOrder[k])
                 /\ \A j \in 1..(k - 1) : ~Matches(GenreOrder[j])
        /\ (Matches("rfp_file3") /\ Contains(LowerConcatenation, "business plan"))
              => out = "rfp_file3"

\* a marker of rfp-variant-3 that spans two lines, next to "business plan"
C6_Witness ==
    /\ op = "_detect_document_type" /\ out = "rfp_file3"
    /\ Contains(LowerConcatenation, "business plan")
    /\ \A k \in DOMAIN lines : ~Contains(ToLower(lines[k].text), "request for proposal")
    /\ Contains(LowerConcatenation, "request for proposal")

(***************************************************************************)
(* The title extractors, each on every document of at most MaxTitleLines   *)
(* lines drawn from TitleRows, on a short or a tall page, the last line on *)
(* page 1 or on page 2.                                                    *)
(***************************************************************************)
MaxTitleLines == 2

TitleRows ==
    { Row("Page 3", 240, TRUE),          Row("Draft v1.2", 240, TRUE),
      Row("2024", 240, TRUE),            Row("Annual Report", 120, FALSE),
      Row("COURSE OVERVIEW", 140, FALSE), Row("RFP: Library plan", 160, TRUE),
      Row("1. Scope of work", 140, TRUE), Row("Overview draft notes", 120, FALSE) }

TitleDocs ==
    { ColumnDoc(h, <<rows>>) : h \in {100, 800}, rows \in Tuples(TitleRows, MaxTitleLines) }
    \cup
    { ColumnDoc(h, <<SubSeq(rows, 1, Len(rows) - 1), <<rows[Len(rows)]>> >>) :
        h \in {100, 800}, rows \in Tuples(TitleRows, MaxTitleLines) }

TitleInputs == { LinesOf(d) : d \in TitleDocs }

TitlePaths == {"general", "academic", "rfp_file3"}

\* _extract_multilingual_title on the generic, academic or rfp-variant-3 path
CallTitle(doc_type) ==
    /\ op = "none"
    /\ op' = "_extract_multilingual_title " \o doc_type
    /\ out' = TitleTrace(lines, analyze_document_structure(lines), doc_type)
    /\ UNCHANGED <<runVars, lines, text>>

NextTitle == \E doc_type \in TitlePaths : CallTitle(doc_type)

SpecTitle == InitCall(TitleInputs) /\ [][NextTitle]_vars

TitleCalled == op \in {"_extract_multilingual_title " \o d : d \in TitlePaths}

BoilerplateTexts == {"Page 3", "Draft v1.2", "2024"}

(***************************************************************************)
(* C9.  On the generic, the academic (fallback scan included) and the      *)
(* rfp-variant-3 title path, no line reading "Page 3", "Draft v1.2" or     *)
(* "2024" is a source of the title, and the title is not the cleaned text  *)
(* of such a line nor contains one of the three texts.                     *)
(***************************************************************************)
C9_BoilerplateNeverTitle ==
    TitleCalled =>
        /\ \A k \in out.source : lines[k].text \notin BoilerplateTexts
        /\ out.title \notin {"Page ", "Page 3 ", "Draft v1.2 ", "2024 "}
        /\ \A b \in BoilerplateTexts : ~Contains(out.title, b)

\* a large bold "Page 3" at the top, and the title taken from the line below
C9_Witness ==
    /\ op = "_extract_multilingual_title general"
    /\ Len(lines) = 2 /\ lines[1].text = "Page 3" /\ lines[1].page = 1 /\ lines[2].page = 1
    /\ out.source = {2}

(***************************************************************************)
(* The batch run, document by document                                     *)
(***************************************************************************)
\* the extraction of the document raises: it cannot be opened, or a page
\* does not load or read
Failing(doc) == ~doc.open_ok \/ \E p \in DOMAIN doc.pages : doc.pages[p].fault # "none"

FirstFault(doc) ==
    IF ~doc.open_ok THEN "cannot open"
    ELSE doc.pages[CHOOSE p \in DOMAIN doc.pages :
                      /\ doc.pages[p].fault # "none"
                      /\ \A q \in 1..(p - 1) : doc.pages[q].fault = "none"].fault

\* the result of a document that is processed alone
ResultAlone(doc) ==
    IF Failing(doc)
    THEN [title |-> "Error Processing Document", outline |-> <<>>,
          error |-> FirstFault(doc), file |-> doc.name]
    ELSE IF LinesOf(doc) = <<>> THEN [title |-> "Empty Document", outline |-> <<>>]
    ELSE extract_main_headings_only(LinesOf(doc), analyze_document_structure(LinesOf(doc)))

(***************************************************************************)
(* C11.  In a batch run a document whose extraction fails gets the result  *)
(* {title: "Error Processing Document", outline: [], error, file} and the  *)
(* run goes on: the k-th result and the k-th summary entry belong to the   *)
(* k-th document, each result is what the document gives when processed    *)
(* alone, the run finishes only when every document has its result, and    *)
(* then total_files is the number of documents and successful the number   *)
(* of results without an error field.                                      *)
(***************************************************************************)
C11_BatchIndependence ==
    /\ Len(output) = Len(results_summary)
    /\ Len(output) = IF pc = "finished" THEN Len(pdf_files) ELSE file_idx - 1
    /\ \A k \in DOMAIN output :
          /\ output[k].content = ResultAlone(pdf_files[k])
          /\ Failing(pdf_files[k]) <=> "error" \in DOMAIN output[k].content
          /\ results_summary[k].file = pdf_files[k].name
          /\ results_summary[k].success = ~Failing(pdf_files[k])
    /\ (pc = "finished" /\ pdf_files # <<>>) =>
          /\ summary.total_files = Len(pdf_files)
          /\ summary.successful =
                Cardinality({k \in DOMAIN output : "error" \notin DOMAIN output[k].content})

\* a run that finished after a failing document followed by one with headings
C11_Witness ==
    /\ pc = "finished" /\ Len(pdf_files) = 2
    /\ Failing(pdf_files[1]) /\ ~Failing(pdf_files[2])
    /\ "error" \in DOMAIN output[1].content
    /\ Len(output[2].content.outline) = 2
    /\ summary.total_files = 2 /\ summary.successful = 1

Levels == {"H1", "H2", "H3", "H4"}

\* a result of extract_outline_robust for the document doc, whose lines are ls
WellFormedResult(r, doc, ls) ==
    /\ {"title", "outline"} \subseteq DOMAIN r
    /\ DOMAIN r \subseteq {"title", "outline", "error", "file"}
    /\ \A k \in DOMAIN r.outline :
          LET e == r.outline[k]
          IN  /\ DOMAIN e = {"level", "text", "page"}
              /\ e.level \in Levels
              /\ e.page \in Nat
              /\ \E j \in DOMAIN ls :
                    /\ ls[j].page = e.page + 1
                    /\ _clean_heading_text(Strip(ls[j].text)) = e.text
    /\ "error" \in DOMAIN r <=> Failing(doc)
    /\ "file" \in DOMAIN r <=> Failing(doc)

(***************************************************************************)
(* C12.  Every result of extract_outline_robust has a title and an         *)
(* outline; every outline entry has exactly a level in {H1, H2, H3, H4}, a *)
(* text and a page >= 0, and a line of the document on the 1-based page    *)
(* page + 1 has that text once cleaned; the fields error and file are      *)
(* there exactly when the extraction of the document failed.               *)
(***************************************************************************)
C12_ResultShape ==
    /\ pc = "returned" =>
          WellFormedResult(result, CurrentDoc, IF Failing(CurrentDoc) THEN <<>> ELSE lines)
    /\ \A k \in DOMAIN output :
          WellFormedResult(output[k].content, pdf_files[k],
                           IF Failing(pdf_files[k]) THEN <<>> ELSE LinesOf(pdf_files[k]))

\* a result with headings from the second page of its document
C12_Witness ==
    /\ pc = "returned" /\ ~Failing(CurrentDoc)
    /\ Len(result.outline) = 2
    /\ \A k \in DOMAIN result.outline : result.outline[k].page = 1
    /\ \E j \in DOMAIN lines : lines[j].page = 1

CleanerCalled == op \in {"_clean_heading_text", "_clean_heading_text again"}

(***************************************************************************)
(* C13.  The string returned by _clean_heading_text is not empty and ends  *)
(* with exactly one space: its last character is a space and the one       *)
(* before, if there is one, is not.                                        *)
(***************************************************************************)
C13_OneTrailingSpace ==
    CleanerCalled =>
        /\ Len(out) >= 1
        /\ At(out, Len(out)) = " "
        /\ Len(out) >= 2 => At(out, Len(out) - 1) # " "

\* the original was taken back for a text that ends with two spaces
C13_Witness ==
    /\ op = "_clean_heading_text"
    /\ text = "..Intro  "
    /\ out = "..Intro "

\* the text after leader stripping, trailing page-number stripping,
\* whitespace collapse and punctuation mapping
CleanedOf(t) ==
    ApplyFixes(Strip(ReSub(RE_SPACES, FALSE, " ",
        Strip(ReSub(RE_TRAILING_NUMBER, TRUE, "",
            Strip(ReSub(RE_LEADERS, TRUE, "", t)))))), 1)

(***************************************************************************)
(* C15.  The cleaner returns the stripped original plus a space when the   *)
(* cleaned string is shorter than 40% of the stripped original (10 times   *)
(* its length below 4 times the original's, that is more than 60% of the   *)
(* length removed), and the cleaned string plus a space otherwise.         *)
(***************************************************************************)
C15_FortyPercentGuard ==
    op = "_clean_heading_text" =>
        LET original == Strip(text)
            removed == Len(original) - Len(CleanedOf(text))
        IN  /\ (10 * Len(CleanedOf(text)) < 4 * Len(original)) <=> (10 * removed > 6 * Len(original))
            /\ out = IF 10 * removed > 6 * Len(original)
                     THEN original \o " "
                     ELSE CleanedOf(text) \o " "

\* a cleaned string of exactly 40% of the original is kept
C15_Witness ==
    /\ op = "_clean_heading_text"
    /\ text = "xx..x" /\ out = "xx "

(***************************************************************************)
(* The outline of extract_main_headings_only for each genre, on documents  *)
(* of 0..MaxCapLines lines, 1, 7 or 50 to a page: numbered upper-case      *)
(* lines that every capped genre makes a heading of, every fifth line a    *)
(* body line.                                                              *)
(***************************************************************************)
MaxCapLines == 46

CapRow(k) ==
    IF k % 5 = 0 THEN Row("Some body text.", 120, FALSE)
    ELSE Row(ToString(k) \o ". TOPIC NO", 120, FALSE)

\* rows 1..n, per to a page
CapDoc(n, per) ==
    ColumnDoc(1200, [p \in 1..((n + per - 1) \div per) |->
                        [j \in 1..Min({per, n - (p - 1) * per}) |-> CapRow((p - 1) * per + j)]])

CapInputs == { LinesOf(CapDoc(n, per)) : n \in 0..MaxCapLines, per \in {1, 7, 50} }

DocTypes == Genres \cup {"form"}

\* lines 235-252 for a document of the given type
CallOutline(doc_type) ==
    /\ op = "none"
    /\ op' = "extract_main_headings_only " \o doc_type
    /\ out' = HeadingsFor(doc_type, lines)
    /\ UNCHANGED <<runVars, lines, text>>

NextCaps == \E doc_type \in DocTypes : CallOutline(doc_type)

SpecCaps == InitCall(CapInputs) /\ [][NextCaps]_vars

Cap(doc_type) ==
    CASE doc_type = "form" -> 0
      [] doc_type = "invitation" -> 2
      [] doc_type = "academic" -> 18
      [] doc_type = "rfp" -> 35
      [] doc_type = "general" -> 25

\* the lines the extractor of the genre makes a heading of
AcceptedLines(genre) == {k \in DOMAIN lines : Accepted(genre, k)}

(***************************************************************************)
(* C14.  The outline of extract_main_headings_only is no longer than the   *)
(* cap of the genre (form 0, invitation 2, academic 18, generic rfp 35,    *)
(* general 25); for academic, generic rfp and general it is the first cap  *)
(* entries of the page-sorted list of all the headings: as many as the     *)
(* smaller of the cap and the number of lines that give a heading, in      *)
(* ascending page order, with no such line left out before the last kept.  *)
(***************************************************************************)
C14_Caps ==
    \A g \in {"form", "invitation", "academic", "rfp", "general"} :
        op = "extract_main_headings_only " \o g =>
            /\ Len(out) <= Cap(g)
            /\ g # "form" =>
                 /\ Len(out) = Min({Cap(g), Cardinality(AcceptedLines(g))})
                 /\ \A i \in DOMAIN out : out[i].line \in AcceptedLines(g)
                 /\ \A i, j \in DOMAIN out :
                       i < j => out[i].page <= out[j].page /\ out[i].line < out[j].line
                 /\ \A k \in AcceptedLines(g) :
                       (out # <<>> /\ k < out[Len(out)].line) =>
                           \E i \in DOMAIN out : out[i].line = k

\* the general outline cut to 25 headings of more, over several pages
C14_Witness ==
    /\ op = "extract_main_headings_only general"
    /\ Len(out) = 25 /\ Cardinality(AcceptedLines("general")) > 25
    /\ out[1].page < out[25].page

(***************************************************************************)
(* The generic title path on documents of 2, 7, 20 or MaxScoreLines lines: *)
(* body lines with a row of ScoreRows at line 1 or 3 and another as the    *)
(* last line, which is on page 1 or alone on page 2; short or tall pages.  *)
(***************************************************************************)
MaxScoreLines == 52

ScoreRows ==
    { Row("Annual Report", 140, TRUE),   Row("ANNUAL REPORT", 120, FALSE),
      Row("Quarterly Memo", 140, FALSE), Row("Page 3", 240, TRUE),
      Row("1. Scope of work", 240, TRUE) }

ScoreColumn(n, a, pa, b) ==
    [k \in 1..n |-> IF k = n THEN b ELSE IF k = pa THEN a
                    ELSE Row("Some body text.", 100, FALSE)]

ScoreDocs ==
    { ColumnDoc(h, IF split THEN <<SubSeq(ScoreColumn(n, a, pa, b), 1, n - 1), <<b>> >>
                   ELSE <<ScoreColumn(n, a, pa, b)>>) :
        h \in {400, 1200}, split \in BOOLEAN, n \in {2, 7, 20, MaxScoreLines},
        a \in ScoreRows, pa \in {1, 3}, b \in ScoreRows }

ScoreInputs == { LinesOf(d) : d \in ScoreDocs }

SpecScore == InitCall(ScoreInputs) /\ [][CallTitle("general")]_vars

\* the page-1 lines among the first 50 that pass the candidate filter
TitleCandidates ==
    { k \in DOMAIN lines :
        /\ k <= 50 /\ lines[k].page = 1
        /\ Len(Strip(lines[k].text)) >= 5 /\ Len(Strip(lines[k].text)) <= 200
        /\ ~_is_numbered_pattern(Strip(lines[k].text))
        /\ ~_is_universal_metadata(Strip(lines[k].text)) }

\* the lines whose size is strictly smaller
SmallerThan(k) == Cardinality({j \in DOMAIN lines : lines[j].size < lines[k].size})

TitleScore(k) ==
      (IF 100 * SmallerThan(k) >= 95 * Len(lines) THEN 5
       ELSE IF 100 * SmallerThan(k) >= 85 * Len(lines) THEN 3 ELSE 0)
    + (IF lines[k].bold THEN 3 ELSE 0)
    + (IF 100 * lines[k].y < 15 * lines[k].page_height THEN 4
       ELSE IF 100 * lines[k].y < 30 * lines[k].page_height THEN 2 ELSE 0)
    + (IF _is_all_uppercase(Strip(lines[k].text)) /\ Len(Strip(lines[k].text)) <= 150
       THEN 3 ELSE 0)

(***************************************************************************)
(* C16.  On the generic path the title is the cleaned text of the          *)
(* candidate (a page-1 line among the first 50 with 5..200 characters that *)
(* is neither numbered nor boilerplate) with the highest score, 5 or 3 for *)
(* a size percentile of 95 or 85, 3 for bold, 4 or 2 for a relative y      *)
(* below 0.15 or 0.30, 3 for upper case of at most 150 characters; of      *)
(* equal scores the earliest line; "Untitled Document" without candidate.  *)
(***************************************************************************)
C16_GenericTitleScore ==
    op = "_extract_multilingual_title general" =>
        IF TitleCandidates = {}
        THEN out.title = "Untitled Document" /\ out.source = {}
        ELSE \E k \in TitleCandidates :
                /\ out.source = {k}
                /\ out.title = _clean_heading_text(Strip(lines[k].text))
                /\ \A j \in TitleCandidates :
                      \/ TitleScore(j) < TitleScore(k)
                      \/ TitleScore(j) = TitleScore(k) /\ k <= j

\* a bold line at the bottom of twenty is the title, with its 3 for the
\* percentile, over the earlier body lines that score for their position
\* and a larger line that is not a candidate
C16_Witness ==
    /\ op = "_extract_multilingual_title general"
    /\ Len(lines) = 20
    /\ out.source = {20} /\ lines[20].page = 1
    /\ 100 * lines[20].y >= 30 * lines[20].page_height
    /\ TitleScore(20) = 6 /\ TitleScore(1) = 4
    /\ 3 \notin TitleCandidates /\ lines[3].size > lines[20].size

PositiveSizes == SelectSeq(Sizes(lines), LAMBDA z : z > 0)

\* the positive sizes that occur 3 or more times
SignificantSizes == {v \in Range(PositiveSizes) : Occurrences(PositiveSizes, v) >= 3}

\* v is one of the sizes of S that occur most often
MostFrequentIn(v, S) ==
    v \in S /\ \A w \in S : Occurrences(PositiveSizes, w) <= Occurrences(PositiveSizes, v)

\* the rational r is num / den times the mean of the positive sizes
IsMeanTimes(r, num, den) ==
    r[1] * den * Len(PositiveSizes) = num * SumSeq(PositiveSizes) * r[2]

(***************************************************************************)
(* C17.  Without a positive size the thresholds are the empty mapping.     *)
(* With at least 3 distinct positive sizes that occur 3 or more times each *)
(* H1..H4 are the 1st..4th most frequent of those sizes, H4 the 3rd when   *)
(* there is no 4th.  Otherwise they are 1.30, 1.15, 1.05 and 1.00 times    *)
(* the mean of the positive sizes.                                         *)
(***************************************************************************)
C17_ThresholdPaths ==
    op = "_calculate_font_thresholds" =>
        IF PositiveSizes = <<>> THEN out = <<>>
        ELSE /\ DOMAIN out = Levels
             /\ IF Cardinality(SignificantSizes) >= 3
                THEN /\ \A l \in Levels : out[l][2] = 1
                     /\ MostFrequentIn(out.H1[1], SignificantSizes)
                     /\ MostFrequentIn(out.H2[1], SignificantSizes \ {out.H1[1]})
                     /\ MostFrequentIn(out.H3[1], SignificantSizes \ {out.H1[1], out.H2[1]})
                     /\ IF Cardinality(SignificantSizes) > 3
                        THEN MostFrequentIn(out.H4[1],
                                 SignificantSizes \ {out.H1[1], out.H2[1], out.H3[1]})
                        ELSE out.H4 = out.H3
                ELSE /\ IsMeanTimes(out.H1, 130, 100)
                     /\ IsMeanTimes(out.H2, 115, 100)
                     /\ IsMeanTimes(out.H3, 105, 100)
                     /\ IsMeanTimes(out.H4, 100, 100)

\* the mean-ratio path on lines one of which has the size 0
C17_Witness ==
    /\ op = "_calculate_font_thresholds"
    /\ Len(PositiveSizes) = Len(lines) - 1 /\ Len(PositiveSizes) >= 2
    /\ Cardinality(SignificantSizes) = 2
    /\ IsMeanTimes(out.H1, 130, 100)

\* the fragments before line k of the lines pl, and the fragments of line k
\* among the sorted fragments f
Before(pl, k) == SumSeq([m \in 1..(k - 1) |-> pl[m].span_count])
GroupOf(f, pl, k) == SubSeq(f, Before(pl, k) + 1, Before(pl, k) + pl[k].span_count)

IsSortedYX(f) ==
    \A i \in DOMAIN f :
        i + 1 \in DOMAIN f =>
            \/ f[i].y < f[i + 1].y
            \/ f[i].y = f[i + 1].y /\ f[i].x <= f[i + 1].x

(***************************************************************************)
(* C18.  On every page read the lines partition the surviving fragments    *)
(* taken in (y, x) order: the first line holds the first fragments, the    *)
(* next line the following ones and so on up to the last fragment, no line *)
(* is empty, and inside a line each fragment is at most 5 below the one    *)
(* before it, or at most 15 with the same size; a page without fragments   *)
(* gives no line.                                                          *)
(***************************************************************************)
C18_LinesPartitionFragments ==
    pc \in {"pages", "extracted"} =>
        \A p \in PagesRead :
            LET f == SortedFragments(p)
                pl == LinesOnPage(p)
            IN  /\ IsSortedYX(f)
                /\ SumSeq([k \in DOMAIN pl |-> pl[k].span_count]) = Len(f)
                /\ f = <<>> => pl = <<>>
                /\ \A k \in DOMAIN pl :
                      LET g == GroupOf(f, pl, k)
                      IN  /\ pl[k].span_count >= 1
                          /\ pl[k].sizes = [i \in DOMAIN g |-> g[i].size]
                          /\ pl[k].text = JoinSpace([i \in DOMAIN g |-> g[i].text])
                          /\ pl[k].y = g[1].y /\ pl[k].x = g[1].x
                          /\ \A i \in DOMAIN g :
                                i + 1 \in DOMAIN g =>
                                    \/ Abs(g[i + 1].y - g[i].y) <= 5
                                    \/ /\ Abs(g[i + 1].y - g[i].y) <= 15
                                       /\ g[i + 1].size = g[i].size

\* three fragments that the text source gave out of order, in two lines
C18_Witness ==
    /\ pc = "extracted" /\ 1 \in PagesRead
    /\ Len(SortedFragments(1)) = 3 /\ Len(LinesOnPage(1)) = 2
    /\ ~IsSortedYX(PageSpans(CurrentDoc.pages[1].spans, 1, CurrentDoc.pages[1]))
    /\ LinesOnPage(1)[1].span_count = 2
    /\ Abs(SortedFragments(1)[2].y - SortedFragments(1)[1].y) > 5

(***************************************************************************)
(* C19.  A line made of a group of fragments has their texts joined by     *)
(* single spaces in group order, the largest of their sizes, bold (italic) *)
(* exactly when more than half of them are bold (italic), the union of     *)
(* their boxes, and the page and the relative position of the first.       *)
(***************************************************************************)
C19_MergedFields ==
    pc \in {"pages", "extracted"} =>
        \A p \in PagesRead :
            LET f == SortedFragments(p)
                pl == LinesOnPage(p)
            IN  \A k \in DOMAIN pl :
                    LET g == GroupOf(f, pl, k)
                        n == Len(g)
                    IN  /\ n >= 1
                        /\ pl[k].text = JoinSpace([i \in DOMAIN g |-> g[i].text])
                        /\ \E i \in DOMAIN g : pl[k].size = g[i].size
                        /\ \A i \in DOMAIN g : g[i].size <= pl[k].size
                        /\ pl[k].bold <=> 2 * Cardinality({i \in DOMAIN g : g[i].bold}) > n
                        /\ pl[k].italic <=> 2 * Cardinality({i \in DOMAIN g : g[i].italic}) > n
                        /\ \A i \in DOMAIN g :
                              /\ pl[k].bbox[1] <= g[i].bbox[1] /\ pl[k].bbox[2] <= g[i].bbox[2]
                              /\ pl[k].bbox[3] >= g[i].bbox[3] /\ pl[k].bbox[4] >= g[i].bbox[4]
                        /\ \A c \in 1..4 : \E i \in DOMAIN g : pl[k].bbox[c] = g[i].bbox[c]
                        /\ pl[k].page = g[1].page
                        /\ pl[k].relative_y = g[1].relative_y
                        /\ pl[k].relative_x = g[1].relative_x

\* a line of two fragments of different sizes and boxes, one of them bold
C19_Witness ==
    /\ pc = "extracted" /\ 1 \in PagesRead /\ LinesOnPage(1) # <<>>
    /\ LET l == LinesOnPage(1)[1]
           g == GroupOf(SortedFragments(1), LinesOnPage(1), 1)
       IN  /\ l.span_count = 2
           /\ g[1].size < g[2].size /\ l.size = g[2].size
           /\ g[1].bold # g[2].bold /\ ~l.bold
           /\ l.bbox # g[1].bbox /\ l.bbox # g[2].bbox

====
